---- MODULE Spec2Model ----
(***************************************************************************)
(* Model of the admin map console of rakhathegreat/jalan: the road filter  *)
(* hook (useFilters), the map page's interaction handlers (Maps.tsx), the  *)
(* road-scoped report loader and the recent-search list.                   *)
(*                                                                         *)
(* JavaScript strings are modelled as sequences of one-character strings,  *)
(* so that trim / toLowerCase / replace are computed as the code computes  *)
(* them.  null is the one-element sequence Null, '' is the empty sequence. *)
(***************************************************************************)
EXTENDS Integers, Sequences, FiniteSets, TLC

VARIABLES
    roads,            \* the loaded road rows (useFilters' roads / roadsDataRef.current)
    filters,          \* useFilters: RoadFilters, one list per dimension
    lastOp,           \* the handler that ran last and its argument (history)
    mapPhase,         \* "style": map constructed, style loading; "fetching": the load
                      \* handler awaits the road query; "ready" / "failed": it returned
    mapReady,         \* Maps: mapReady state
    sources,          \* ids of the sources added to the map, in order
    layers,           \* ids of the layers added to the map, in order
    hoveredId,        \* hoveredRoadIdRef.current
    selectedId,       \* selectedRoadIdRef.current
    highlight,        \* the id in the filter of layer roads-highlight
    activeRoad,       \* Maps: activeRoad state (NoRoad for null)
    lastView,         \* the viewport command issued last
    searchTermRef,    \* searchTermRef.current
    searchTerm,       \* Maps: searchTerm state
    searchResults,    \* Maps: searchResults state
    searchDialogOpen, \* Maps: searchDialogOpen state
    recentSearches,   \* Maps / useRoadSearch: recentSearches state
    storage,          \* localStorage[RECENT_SEARCH_KEY], parsed
    reports,          \* reports state
    reportsLoading,   \* reportsLoading state
    reportsError,     \* reportsError state
    fetches,          \* report queries in flight: [roadId, cancelled]
    highlightSuppressed, \* coordinator: the selection is not drawn as highlight
    activeReportId,   \* coordinator: the report shown as active
    skipRoadClick,    \* coordinator: the next road click belongs to a marker click
    debouncedSearchTerm, \* useRoadSearch: debouncedSearchTerm state
    debounceTimer,    \* useRoadSearch: the text the pending setTimeout carries (Null: none)
    mapMode,          \* Maps: mapMode state, "2d" or "3d"
    terrain,          \* whether map.setTerrain holds the terrain source
    editDialogOpen,   \* DetailPanel: editDialogOpen state
    editSaving,       \* DetailPanel: editSaving state
    editError,        \* DetailPanel: editError state (Null for null)
    savesInFlight,    \* road ids of the update queries awaited by handleSaveEdit
    roadUpdated,      \* the road ids handed to onRoadUpdated, in order
    dm,               \* DataManagement: the component's state, one field per useState
    dmTimer,          \* DataManagement: the search debounce timeout is pending
    dmRequests,       \* DataManagement: the select queries awaited by fetchData;
                      \* latest marks the one sent last
    dmDelete,         \* DataManagement: the delete queries awaited by handleDelete
    dmDb,             \* the remote tables: the ids of the rows they hold
    dmLatest,         \* what the query sent last came back with (history)
    dmSent            \* the number of queries fetchData has sent (history)

filterVars == <<filters>>
mapVars == <<mapPhase, mapReady, sources, layers>>
interVars == <<hoveredId, selectedId, highlight, activeRoad, lastView>>
searchVars == <<searchTermRef, searchTerm, searchResults, searchDialogOpen>>
recentVars == <<recentSearches, storage>>
reportVars == <<reports, reportsLoading, reportsError, fetches>>
coordVars == <<highlightSuppressed, activeReportId, skipRoadClick>>
debounceVars == <<debouncedSearchTerm, debounceTimer>>
modeVars == <<mapMode, terrain>>
editVars == <<editDialogOpen, editSaving, editError, savesInFlight, roadUpdated>>
dmVars == <<dm, dmTimer, dmRequests, dmDelete, dmDb, dmLatest, dmSent>>

vars == <<roads, filterVars, lastOp, mapVars, interVars, searchVars, recentVars,
          reportVars, coordVars, debounceVars, modeVars, editVars, dmVars>>

\* ---------------------------------------------------------------- bounds
MaxRoads == 2
MaxSelected == 2

\* ------------------------------------------------------------ JS strings
Null == <<"<null>">>
NoNum == 0 - 1

Space == " "

IsSpace(c) == c = Space

LowerChar(c) ==
    CASE c = "A" -> "a" [] c = "B" -> "b" [] c = "D" -> "d" [] c = "E" -> "e"
      [] c = "G" -> "g" [] c = "J" -> "j" [] c = "K" -> "k" [] c = "M" -> "m"
      [] c = "O" -> "o" [] c = "P" -> "p" [] c = "R" -> "r" [] c = "S" -> "s"
      [] c = "I" -> "i" [] c = "L" -> "l" [] c = "N" -> "n" [] c = "T" -> "t"
      [] OTHER -> c

toLowerCase(s) == [i \in 1..Len(s) |-> LowerChar(s[i])]

RECURSIVE trimStart(_)
trimStart(s) ==
    IF s = <<>> THEN <<>>
    ELSE IF IsSpace(Head(s)) THEN trimStart(Tail(s)) ELSE s

RECURSIVE trimEnd(_)
trimEnd(s) ==
    IF s = <<>> THEN <<>>
    ELSE IF IsSpace(s[Len(s)]) THEN trimEnd(SubSeq(s, 1, Len(s) - 1)) ELSE s

trim(s) == trimEnd(trimStart(s))

\* s.replace(/[_-]+/g, ' '): every maximal run of '_' and '-' becomes one space
IsSeparator(c) == c \in {"_", "-"}

RECURSIVE replaceSeparators(_)
replaceSeparators(s) ==
    IF s = <<>> THEN <<>>
    ELSE IF IsSeparator(Head(s))
         THEN IF Len(s) > 1 /\ IsSeparator(s[2])
              THEN replaceSeparators(Tail(s))
              ELSE <<Space>> \o replaceSeparators(Tail(s))
         ELSE <<Head(s)>> \o replaceSeparators(Tail(s))

\* s.replace(/\s+/g, ' '): every maximal run of white space becomes one space
RECURSIVE collapseSpaces(_)
collapseSpaces(s) ==
    IF s = <<>> THEN <<>>
    ELSE IF IsSpace(Head(s))
         THEN IF Len(s) > 1 /\ IsSpace(s[2])
              THEN collapseSpaces(Tail(s))
              ELSE <<Space>> \o collapseSpaces(Tail(s))
         ELSE <<Head(s)>> \o collapseSpaces(Tail(s))

\* String(n) for the small naturals the model uses
DigitChar(d) ==
    CASE d = 0 -> "0" [] d = 1 -> "1" [] d = 2 -> "2" [] d = 3 -> "3" [] d = 4 -> "4"
      [] d = 5 -> "5" [] d = 6 -> "6" [] d = 7 -> "7" [] d = 8 -> "8" [] OTHER -> "9"

RECURSIVE NumToString(_)
NumToString(n) ==
    IF n < 10 THEN <<DigitChar(n)>>
    ELSE NumToString(n \div 10) \o <<DigitChar(n % 10)>>

includes(list, x) == \E i \in 1..Len(list) : list[i] = x

\* ---------------------------------------------------------- string data
sGood == <<"g", "o", "o", "d">>
sMinorDamage == <<"m", "i", "n", "o", "r", " ", "d", "a", "m", "a", "g", "e">>
sSevereDamage == <<"s", "e", "v", "e", "r", "e", " ", "d", "a", "m", "a", "g", "e">>

sMinorUnderscore == <<"M", "i", "n", "o", "r", "_", "D", "a", "m", "a", "g", "e">>
sSevereDashes == <<"s", "e", "v", "e", "r", "e", "-", "-", " ", "d", "a", "m", "a", "g", "e">>
sGoodPadded == <<" ", "G", "o", "o", "d", " ">>
sBadRoad == <<"b", "a", "d", "_", "r", "o", "a", "d">>
sBlank == <<" ", " ">>
sOpen == <<"o", "p", "e", "n">>
sOpenCap == <<"O", "p", "e", "n", " ">>
sBanjar == <<"b", "a", "n", "j", "a", "r">>
sBanjarCap == <<" ", "B", "a", "n", "j", "a", "r">>
sPrimary == <<"p", "r", "i", "m", "a", "r", "y">>
sPrimaryCap == <<"P", "r", "i", "m", "a", "r", "y">>
sKota == <<"k", "o", "t", "a">>
sDesa == <<"d", "e", "s", "a">>
sDesaCap == <<"D", "e", "s", "a">>
sJalanMelati == <<"J", "a", "l", "a", "n", " ", "M", "e", "l", "a", "t", "i">>
sJlA == <<"J", "l", " ", "A">>

\* ------------------------------------------------------------- road rows
\* RoadRow (types.ts): the fields the filter, the search and the map read.
\* geom.type = "none" stands for geom: null; props.present = FALSE for props: null;
\* a props key that is Null is a key the object does not carry.
NoGeom == [type |-> "none", coordinates |-> <<>>]
Line(cs) == [type |-> "LineString", coordinates |-> cs]
NoRoad ==
    [id |-> 0, geom |-> NoGeom, name |-> Null, highway |-> Null,
     props |-> [present |-> FALSE, tipe_jalan |-> Null, road_type |-> Null, id |-> Null],
     kelurahan |-> Null, kecamatan |-> Null, kota |-> Null, tipe_jalan |-> Null,
     rt |-> NoNum, rw |-> NoNum, condition |-> Null, status |-> Null]
NoProps == [present |-> FALSE, tipe_jalan |-> Null, road_type |-> Null, id |-> Null]
Props(t, rt) == [present |-> TRUE, tipe_jalan |-> t, road_type |-> rt, id |-> Null]
\* props that carry an "id" key of their own (the upstream record's id)
PropsWithId(t, rt, id) == [present |-> TRUE, tipe_jalan |-> t, road_type |-> rt, id |-> id]
sWayId == <<"w", "7">>

RoadPool ==
    { [id |-> 1, geom |-> Line(<<<<0, 0>>, <<1, 1>>>>), name |-> sJlA, highway |-> sPrimary,
       props |-> NoProps, kelurahan |-> sBanjarCap, kecamatan |-> sBanjar, kota |-> sKota, tipe_jalan |-> sKota,
       rt |-> 1, rw |-> 2, condition |-> sGoodPadded, status |-> sOpenCap],
      [id |-> 2, geom |-> Line(<<<<2, 0>>, <<3, 1>>>>), name |-> Null, highway |-> sPrimaryCap,
       props |-> Props(Null, sDesaCap), kelurahan |-> sBanjar, kecamatan |-> Null, kota |-> sKota, tipe_jalan |-> Null,
       rt |-> NoNum, rw |-> 2, condition |-> sMinorUnderscore, status |-> Null],
      [id |-> 3, geom |-> NoGeom, name |-> sJalanMelati, highway |-> Null,
       props |-> Props(sKota, sDesa), kelurahan |-> Null, kecamatan |-> Null, kota |-> Null, tipe_jalan |-> Null,
       rt |-> 1, rw |-> NoNum, condition |-> sSevereDashes, status |-> sBlank],
      [id |-> 4, geom |-> Line(<<<<0, 2>>>>), name |-> Null, highway |-> Null,
       props |-> NoProps, kelurahan |-> sBlank, kecamatan |-> sBanjar, kota |-> Null, tipe_jalan |-> sDesaCap,
       rt |-> 12, rw |-> 1, condition |-> Null, status |-> sOpen],
      [id |-> 5, geom |-> Line(<<<<4, 4>>, <<5, 5>>>>), name |-> sJlA, highway |-> sPrimary,
       props |-> PropsWithId(Null, Null, sWayId), kelurahan |-> sBanjar, kecamatan |-> Null, kota |-> Null, tipe_jalan |-> sDesa,
       rt |-> 1, rw |-> 2, condition |-> sBadRoad, status |-> sOpen],
      [id |-> 6, geom |-> Line(<<<<6, 6>>, <<7, 7>>>>), name |-> sJalanMelati, highway |-> sPrimary,
       props |-> NoProps, kelurahan |-> sBanjar, kecamatan |-> sBanjar, kota |-> sKota, tipe_jalan |-> sKota,
       rt |-> 1, rw |-> 2, condition |-> sMinorDamage, status |-> sOpen] }

\* the road lists a load can deliver: rows with distinct ids, at most MaxRoads of them
RECURSIVE RoadListsOfLen(_)
RoadListsOfLen(n) ==
    IF n = 0 THEN {<<>>}
    ELSE { Append(l, r) : l \in RoadListsOfLen(n - 1), r \in RoadPool }

DistinctIds(l) == \A i, j \in 1..Len(l) : i # j => l[i].id # l[j].id

RoadLists ==
    { l \in UNION { RoadListsOfLen(n) : n \in 0..MaxRoads } : DistinctIds(l) }

\* ------------------------------------------------------------ useFilters
CONDITION_VALUES == {sGood, sMinorDamage, sSevereDamage}

Dimensions == {"condition", "status", "kelurahan", "jenisJalan", "tipeJalan", "rt", "rw"}

createInitialFilters == [d \in Dimensions |-> <<>>]

normalizeFilterValue(value) ==
    toLowerCase(trim(IF value = Null THEN <<>> ELSE value))

\* variant: an empty list matches no road
matchesSelected_EmptyMatchesNone(selected, candidate) ==
    IF Len(selected) = 0 THEN FALSE
    ELSE IF candidate = Null \/ candidate = <<>> THEN FALSE
    ELSE includes(selected, candidate)

\* variant: a road without a value passes a constrained dimension
matchesSelected_NullMatches(selected, candidate) ==
    IF Len(selected) = 0 THEN TRUE
    ELSE IF candidate = Null \/ candidate = <<>> THEN TRUE
    ELSE includes(selected, candidate)

matchesSelected(selected, candidate) ==
    IF Len(selected) = 0 THEN TRUE
    ELSE IF candidate = Null \/ candidate = <<>> THEN FALSE
    ELSE includes(selected, candidate)

normalizeCandidate(candidate) ==
    LET normalized == normalizeFilterValue(candidate)
    IN IF normalized = <<>> THEN Null ELSE normalized

\* variant: the condition is only trimmed and lower-cased
normalizeConditionValue_NoSeparators(value) == normalizeCandidate(value)

normalizeConditionValue(value) ==
    LET normalized == normalizeCandidate(value)
    IN IF normalized = Null THEN Null
       ELSE LET cleaned == trim(collapseSpaces(replaceSeparators(normalized)))
            IN IF cleaned \in CONDITION_VALUES THEN cleaned ELSE normalized

getRoadType(road) ==
    IF road.tipe_jalan # Null THEN road.tipe_jalan
    ELSE IF road.props.present
         THEN IF road.props.tipe_jalan # Null THEN road.props.tipe_jalan
              ELSE road.props.road_type
         ELSE Null

NumOrNull(n) == IF n = NoNum THEN Null ELSE NumToString(n)

\* one entry of normalizedRoads: the road with its seven normalized candidates
normalizedRoad(road) ==
    [road |-> road,
     condition |-> normalizeConditionValue(road.condition),
     status |-> normalizeCandidate(road.status),
     kelurahan |-> normalizeCandidate(road.kelurahan),
     jenisJalan |-> normalizeCandidate(road.highway),
     tipeJalan |-> normalizeCandidate(getRoadType(road)),
     rt |-> normalizeCandidate(NumOrNull(road.rt)),
     rw |-> normalizeCandidate(NumOrNull(road.rw))]

normalizedRoads(rs) == [i \in 1..Len(rs) |-> normalizedRoad(rs[i])]

\* variant: only the condition dimension is looked at
roadPasses_ConditionOnly(f, n) == matchesSelected(f.condition, n.condition)

roadPasses(f, n) ==
    /\ matchesSelected(f.condition, n.condition)
    /\ matchesSelected(f.status, n.status)
    /\ matchesSelected(f.kelurahan, n.kelurahan)
    /\ matchesSelected(f.jenisJalan, n.jenisJalan)
    /\ matchesSelected(f.tipeJalan, n.tipeJalan)
    /\ matchesSelected(f.rt, n.rt)
    /\ matchesSelected(f.rw, n.rw)

filteredRoads(rs, f) ==
    LET kept == SelectSeq(normalizedRoads(rs), LAMBDA n : roadPasses(f, n))
    IN [i \in 1..Len(kept) |-> kept[i].road]

hasActiveFilters(f) == \E d \in Dimensions : Len(f[d]) > 0

\* the values the filter dialog and its callers hand to the setters
FilterValues(d) ==
    CASE d = "condition" -> {sGood, sMinorDamage, sSevereDamage}
      [] d = "status" -> {sOpen}
      [] d = "kelurahan" -> {sBanjar}
      [] d = "jenisJalan" -> {sPrimary}
      [] d = "tipeJalan" -> {sKota, sDesa}
      [] d = "rt" -> {NumToString(1), NumToString(12)}
      [] OTHER -> {NumToString(2)}

RECURSIVE SumLens(_, _)
SumLens(f, ds) ==
    IF ds = {} THEN 0
    ELSE LET d == CHOOSE x \in ds : TRUE IN Len(f[d]) + SumLens(f, ds \ {d})

SelectedCount(f) == SumLens(f, Dimensions)

\* Array.from(new Set(prev[key])) after delete / add: insertion order is kept
toggled(list, value) ==
    IF includes(list, value)
    THEN SelectSeq(list, LAMBDA x : x # value)
    ELSE Append(list, value)

toggleFilterValue(key, value) ==
    /\ filters' = [filters EXCEPT ![key] = toggled(filters[key], value)]
    /\ SelectedCount(filters') <= MaxSelected
    /\ lastOp' = [op |-> "toggleFilterValue", arg |-> Null]
    /\ UNCHANGED <<roads, mapVars, interVars, searchVars, recentVars, reportVars, coordVars, debounceVars, modeVars, editVars, dmVars>>

setFilterValue(key, value) ==
    /\ filters' = [filters EXCEPT ![key] = IF value = Null \/ value = <<>> THEN <<>> ELSE <<value>>]
    /\ SelectedCount(filters') <= MaxSelected
    /\ lastOp' = [op |-> "setFilterValue", arg |-> Null]
    /\ UNCHANGED <<roads, mapVars, interVars, searchVars, recentVars, reportVars, coordVars, debounceVars, modeVars, editVars, dmVars>>

resetFilters ==
    /\ filters' = createInitialFilters
    /\ lastOp' = [op |-> "resetFilters", arg |-> Null]
    /\ UNCHANGED <<roads, mapVars, interVars, searchVars, recentVars, reportVars, coordVars, debounceVars, modeVars, editVars, dmVars>>

\* the state of a freshly mounted map page, before the style has loaded
sDone == <<"d", "o", "n", "e">>
sPending == <<"p", "e", "n", "d", "i", "n", "g">>

\* ------------------------------------------------ the data-management table
\* the remote roads table in the order of .order('name', ascending): nulls last
RemoteRoads ==
    << [id |-> NumToString(1), name |-> <<"a">>, highway |-> Null],
       [id |-> NumToString(2), name |-> <<"a", "b">>, highway |-> Null],
       [id |-> NumToString(3), name |-> Null, highway |-> <<"B">>] >>

\* the remote reports table in the order of .order('created_at', descending)
RemoteReports ==
    << [id |-> 2, deskripsi |-> <<"B", "a">>, status |-> sPending, kontak_pelapor |-> Null],
       [id |-> 1, deskripsi |-> Null, status |-> sDone, kontak_pelapor |-> Null] >>

RowIds(rows) == {rows[k].id : k \in 1..Len(rows)}

\* the data-management page after its first render and the effects of the mount:
\* the debounce timeout is set and fetchData has sent its first query
\* (DataManagement.tsx:122-135, 146-149, 224-226)
NoTarget == [type |-> "none", ids |-> {}]

\* the page sizes 10, 20, 50, 100 of limitOptions, scaled to the size of the tables
limitOptions == <<2, 3>>

Request(tableView, term, page, perPage) ==
    [tableView |-> tableView, term |-> term, page |-> page, perPage |-> perPage,
     latest |-> TRUE]

InitTable ==
    /\ dm = [tableView |-> "roads", roads |-> <<>>, reports |-> <<>>,
             selectedRoadIds |-> {}, selectedReportIds |-> {},
             search |-> <<>>, debouncedSearch |-> <<>>, page |-> 1,
             perPage |-> limitOptions[1], total |-> 0, loading |-> TRUE,
             deleteDialogOpen |-> FALSE, deleteTarget |-> NoTarget,
             deleteLoading |-> FALSE]
    /\ dmTimer = TRUE
    /\ dmRequests = {Request("roads", <<>>, 1, limitOptions[1])}
    /\ dmDelete = {}
    /\ dmDb = [roads |-> RowIds(RemoteRoads), reports |-> RowIds(RemoteReports)]
    /\ dmLatest = [roads |-> <<>>, reports |-> <<>>, total |-> 0, settled |-> FALSE]
    /\ dmSent = 1

InitMounted ==
    /\ filters = createInitialFilters
    /\ lastOp = [op |-> "init", arg |-> Null]
    /\ mapPhase = "style"
    /\ mapReady = FALSE
    /\ sources = <<>>
    /\ layers = <<>>
    /\ hoveredId = Null
    /\ selectedId = Null
    /\ highlight = <<>>
    /\ activeRoad = NoRoad
    /\ lastView = [cmd |-> "none", id |-> Null]
    /\ searchTermRef = <<>>
    /\ searchTerm = <<>>
    /\ searchResults = <<>>
    /\ searchDialogOpen = FALSE
    /\ reports = <<>>
    /\ reportsLoading = FALSE
    /\ reportsError = Null
    /\ fetches = {}
    /\ highlightSuppressed = FALSE
    /\ activeReportId = Null
    /\ skipRoadClick = FALSE
    /\ debouncedSearchTerm = <<>>
    /\ debounceTimer = <<>>
    /\ mapMode = "2d"
    /\ terrain = FALSE
    /\ editDialogOpen = FALSE
    /\ editSaving = FALSE
    /\ editError = Null
    /\ savesInFlight = <<>>
    /\ roadUpdated = <<>>
    /\ InitTable

\* the filter hook over a loaded road list
InitFilter ==
    /\ InitMounted
    /\ roads \in RoadLists
    /\ storage = [kind |-> "absent", items |-> <<>>]
    /\ recentSearches = <<>>

NextFilter ==
    \/ \E d \in Dimensions : \E v \in FilterValues(d) : toggleFilterValue(d, v)
    \/ \E d \in Dimensions : \E v \in FilterValues(d) \cup {Null} : setFilterValue(d, v)
    \/ resetFilters

SpecFilter == InitFilter /\ [][NextFilter]_vars

\* ------------------------------------------------------- Maps.tsx: helpers
normalizeId(id) == NumToString(id)

sRuas == <<"R", "u", "a", "s", " ">>
sDash == <<"-">>
sTypedJl == <<"J", "l">>
sReportsFailed == <<"G", "a", "g", "a", "l">>
sVerified == <<"v", "e", "r", "i", "f", "i", "e", "d">>

\* a ?? b
Coalesce(a, b) == IF a # Null THEN a ELSE b
\* a || b on strings and null
OrElse(a, b) == IF a # Null /\ a # <<>> THEN a ELSE b

Contains(s, t) ==
    \E i \in 0..(Len(s) - Len(t)) : SubSeq(s, i + 1, i + Len(t)) = t

findRoadById(id) ==
    IF \E i \in 1..Len(roads) : normalizeId(roads[i].id) = id
    THEN roads[CHOOSE i \in 1..Len(roads) :
                 /\ normalizeId(roads[i].id) = id
                 /\ \A j \in 1..(i - 1) : normalizeId(roads[j].id) # id]
    ELSE NoRoad

HasGeom(road) == road.geom.type # "none"

\* { id: featureId, highway, name, ...(props ?? {}) } read at key "id": the
\* spread comes last, so a key the props carry replaces the one written first
spreadId(featureId, props) ==
    IF props.present /\ props.id # Null THEN props.id ELSE featureId

\* buildFeatureCollection: one feature per road with a geometry
buildFeatureCollection(rs) ==
    LET withGeom == SelectSeq(rs, HasGeom)
    IN [i \in 1..Len(withGeom) |->
          [id |-> normalizeId(withGeom[i].id),
           geometry |-> withGeom[i].geom,
           properties |-> [id |-> spreadId(normalizeId(withGeom[i].id), withGeom[i].props),
                           highway |-> withGeom[i].highway,
                           name |-> withGeom[i].name]]]

\* the features a pointer event on layer roads-hit can carry
HitFeatures ==
    IF includes(layers, "roads-hit")
    THEN {buildFeatureCollection(roads)[i] : i \in 1..Len(buildFeatureCollection(roads))}
    ELSE {}

HasHighlightLayer == includes(layers, "roads-highlight")

\* map.setFilter('roads-highlight', ['==', ['get', 'id'], id]) behind getLayer
\* variant: a clear of the highlight, id '', is skipped
setHighlightIfLayer_SkipsClear(id) ==
    IF HasHighlightLayer /\ id # <<>> THEN id ELSE highlight

setHighlightIfLayer(id) == IF HasHighlightLayer THEN id ELSE highlight

SearchCap == 8

FirstN(s, n) == IF Len(s) <= n THEN s ELSE SubSeq(s, 1, n)

\* variant: only the name is searched
searchMatches_NameOnly(rs, term) ==
    FirstN(SelectSeq(rs, LAMBDA road : Contains(toLowerCase(Coalesce(road.name, <<>>)), term)),
           SearchCap)

searchMatches(rs, term) ==
    FirstN(SelectSeq(rs, LAMBDA road :
                \/ Contains(toLowerCase(Coalesce(road.name, <<>>)), term)
                \/ Contains(toLowerCase(Coalesce(road.highway, <<>>)), term)),
           SearchCap)

\* the effect on [searchTerm]: runs after a handler that changed searchTerm;
\* ref and results are the values the handler itself left
SearchEffect(newTerm, ref, results) ==
    IF newTerm = searchTerm THEN [ref |-> ref, results |-> results]
    ELSE LET term == toLowerCase(trim(newTerm))
         IN IF term = <<>>
            THEN [ref |-> <<>>, results |-> <<>>]
            ELSE [ref |-> term, results |-> searchMatches(roads, term)]

\* ------------------------------------------------- Maps.tsx: report loader
\* the rows of table reports: road 1 has a report without status, a done one
\* and a verified one; road 2 has only a done report; road 3 has none
ReportTable ==
    { [id |-> 1, road_id |-> NumToString(1), status |-> Null],
      [id |-> 2, road_id |-> NumToString(1), status |-> sDone],
      [id |-> 3, road_id |-> NumToString(1), status |-> sVerified],
      [id |-> 4, road_id |-> NumToString(2), status |-> sDone] }

ReportPool(roadId) == { r \in ReportTable : r.road_id = roadId }

MaxRows == 2

RECURSIVE RowListsOfLen(_, _)
RowListsOfLen(roadId, n) ==
    IF n = 0 THEN {<<>>}
    ELSE { Append(l, r) : l \in RowListsOfLen(roadId, n - 1), r \in ReportPool(roadId) }

\* what .eq('road_id', roadId) can return: rows of that road, each at most once
ReportResponses(roadId) ==
    { l \in UNION { RowListsOfLen(roadId, n) : n \in 0..MaxRows } :
        \A i, j \in 1..Len(l) : i # j => l[i].id # l[j].id }

\* variant: every fetched row is kept
activeReports_KeepsDone(data) == data

activeReports(data) ==
    SelectSeq(data, LAMBDA report : Coalesce(report.status, sPending) # sDone)

\* the cleanup of the previous run of the reports effect: isCancelled = true
cancelAll(fs) == { [f EXCEPT !.cancelled = TRUE] : f \in fs }

\* variant: the branch without a selected road leaves the loader as it is
ReportsEffect_NoReset(newActive, newSelected) ==
    IF newActive.id = activeRoad.id
    THEN UNCHANGED reportVars
    ELSE LET roadId == IF newActive.id # 0 THEN normalizeId(newActive.id) ELSE Null
         IN IF roadId = Null \/ newSelected # roadId
            THEN /\ UNCHANGED <<reports, reportsError, reportsLoading>>
                 /\ fetches' = cancelAll(fetches)
            ELSE /\ reportsLoading' = TRUE
                 /\ reportsError' = Null
                 /\ reports' = reports
                 /\ fetches' = cancelAll(fetches) \cup {[roadId |-> roadId, cancelled |-> FALSE]}

\* variant: a new query is started without setReportsLoading(true)
ReportsEffect_NoLoadingFlag(newActive, newSelected) ==
    IF newActive.id = activeRoad.id
    THEN UNCHANGED reportVars
    ELSE LET roadId == IF newActive.id # 0 THEN normalizeId(newActive.id) ELSE Null
         IN IF roadId = Null \/ newSelected # roadId
            THEN /\ reports' = <<>>
                 /\ reportsError' = Null
                 /\ reportsLoading' = FALSE
                 /\ fetches' = cancelAll(fetches)
            ELSE /\ UNCHANGED <<reportsLoading, reports>>
                 /\ reportsError' = Null
                 /\ fetches' = cancelAll(fetches) \cup {[roadId |-> roadId, cancelled |-> FALSE]}

\* the effect on [activeRoad?.id], run after a handler that left the active
\* road newActive and the selected id newSelected
ReportsEffect(newActive, newSelected) ==
    IF newActive.id = activeRoad.id
    THEN UNCHANGED reportVars
    ELSE LET roadId == IF newActive.id # 0 THEN normalizeId(newActive.id) ELSE Null
         IN IF roadId = Null \/ newSelected # roadId
            THEN /\ reports' = <<>>
                 /\ reportsError' = Null
                 /\ reportsLoading' = FALSE
                 /\ fetches' = cancelAll(fetches)
            ELSE /\ reportsLoading' = TRUE
                 /\ reportsError' = Null
                 /\ reports' = reports
                 /\ fetches' = cancelAll(fetches) \cup {[roadId |-> roadId, cancelled |-> FALSE]}

\* variant: a failure leaves the loading flag set
ReportsFetchError_KeepsLoading(f) ==
    /\ f \in fetches
    /\ fetches' = fetches \ {f}
    /\ IF f.cancelled
       THEN UNCHANGED <<reports, reportsLoading, reportsError>>
       ELSE /\ reportsError' = sReportsFailed
            /\ reports' = <<>>
            /\ UNCHANGED reportsLoading
    /\ lastOp' = [op |-> "reportsError", arg |-> f.roadId]
    /\ UNCHANGED <<roads, filterVars, mapVars, interVars, searchVars, recentVars, coordVars, debounceVars, modeVars, editVars, dmVars>>

\* the query of fetch f failed
ReportsFetchError(f) ==
    /\ f \in fetches
    /\ fetches' = fetches \ {f}
    /\ IF f.cancelled
       THEN UNCHANGED <<reports, reportsLoading, reportsError>>
       ELSE /\ reportsError' = sReportsFailed
            /\ reports' = <<>>
            /\ reportsLoading' = FALSE
    /\ lastOp' = [op |-> "reportsError", arg |-> f.roadId]
    /\ UNCHANGED <<roads, filterVars, mapVars, interVars, searchVars, recentVars, coordVars, debounceVars, modeVars, editVars, dmVars>>

\* variant: the response is applied without looking at isCancelled
ReportsFetchOk_IgnoresCancel(f, data) ==
    /\ f \in fetches
    /\ fetches' = fetches \ {f}
    /\ reports' = activeReports(data)
    /\ reportsLoading' = FALSE
    /\ UNCHANGED reportsError
    /\ lastOp' = [op |-> "reportsOk", arg |-> f.roadId]
    /\ UNCHANGED <<roads, filterVars, mapVars, interVars, searchVars, recentVars, coordVars, debounceVars, modeVars, editVars, dmVars>>

\* variant: the response is applied and the loading flag left as it is
ReportsFetchOk_KeepsLoading(f, data) ==
    /\ f \in fetches
    /\ fetches' = fetches \ {f}
    /\ IF f.cancelled
       THEN UNCHANGED <<reports, reportsLoading, reportsError>>
       ELSE /\ reports' = activeReports(data)
            /\ UNCHANGED <<reportsLoading, reportsError>>
    /\ lastOp' = [op |-> "reportsOk", arg |-> f.roadId]
    /\ UNCHANGED <<roads, filterVars, mapVars, interVars, searchVars, recentVars, coordVars, debounceVars, modeVars, editVars, dmVars>>

\* the query of fetch f returned data
ReportsFetchOk(f, data) ==
    /\ f \in fetches
    /\ fetches' = fetches \ {f}
    /\ IF f.cancelled
       THEN UNCHANGED <<reports, reportsLoading, reportsError>>
       ELSE /\ reports' = activeReports(data)
            /\ reportsLoading' = FALSE
            /\ UNCHANGED reportsError
    /\ lastOp' = [op |-> "reportsOk", arg |-> f.roadId]
    /\ UNCHANGED <<roads, filterVars, mapVars, interVars, searchVars, recentVars, coordVars, debounceVars, modeVars, editVars, dmVars>>

\* --------------------------------------------------- Maps.tsx: map loading
\* map.addSource / map.addLayer: the library throws on an id it already holds;
\* the thrown error is recorded as the entry "error"
mapAdd(list, id) == IF includes(list, id) THEN Append(list, "error") ELSE Append(list, id)

\* variant: the add is not guarded by getSource / getLayer
addIfAbsent_Unguarded(list, id) == mapAdd(list, id)

\* if (!map.getLayer(id)) map.addLayer(...), and the same for the source
addIfAbsent(list, id) == IF includes(list, id) THEN list ELSE mapAdd(list, id)

\* steps 3 to 6 of the load handler
setupRoadSource(ss) == addIfAbsent(ss, "roads")

setupRoadLayers(ls) ==
    addIfAbsent(addIfAbsent(addIfAbsent(ls, "roads-line"), "roads-hit"), "roads-highlight")

\* map 'load' fires: the handler starts the road query
MapLoad ==
    /\ mapPhase = "style"
    /\ mapPhase' = "fetching"
    /\ lastOp' = [op |-> "mapLoad", arg |-> Null]
    /\ UNCHANGED <<roads, filterVars, mapReady, sources, layers, interVars, searchVars,
                   recentVars, reportVars, coordVars, debounceVars, modeVars, editVars, dmVars>>

\* the effect on [mapMode, mapReady], for a map that is ready: enable3DMode /
\* disable3DMode
modeSources(ss, mode) == IF mode = "3d" THEN addIfAbsent(ss, "jalan-terrain") ELSE ss

modeLayers(ls, mode) ==
    IF mode = "2d" THEN SelectSeq(ls, LAMBDA id : id # "jalan-sky") ELSE ls

modeView(mode) == [cmd |-> IF mode = "3d" THEN "easeTo3d" ELSE "easeTo2d", id |-> Null]

\* variant: the error branch returns without setMapReady(true)
RoadsFetchError_NotReady ==
    /\ mapPhase = "fetching"
    /\ mapPhase' = "failed"
    /\ lastOp' = [op |-> "roadsError", arg |-> Null]
    /\ UNCHANGED <<roads, filterVars, mapReady, sources, layers, interVars, searchVars,
                   recentVars, reportVars, coordVars, debounceVars, modeVars, editVars, dmVars>>

\* the road query failed: setMapReady(true), then the mode effect
RoadsFetchError ==
    /\ mapPhase = "fetching"
    /\ mapPhase' = "failed"
    /\ mapReady' = TRUE
    /\ sources' = modeSources(sources, mapMode)
    /\ layers' = modeLayers(layers, mapMode)
    /\ terrain' = (mapMode = "3d")
    /\ lastView' = modeView(mapMode)
    /\ lastOp' = [op |-> "roadsError", arg |-> Null]
    /\ UNCHANGED <<roads, filterVars, hoveredId, selectedId, highlight, activeRoad,
                   searchVars, recentVars, reportVars, coordVars, debounceVars, mapMode, editVars, dmVars>>

\* the road query returned: source, layers, fit to all roads, handlers,
\* setMapReady(true), then the mode effect
RoadsFetchOk(data) ==
    /\ mapPhase = "fetching"
    /\ roads' = data
    /\ sources' = modeSources(setupRoadSource(sources), mapMode)
    /\ layers' = modeLayers(setupRoadLayers(layers), mapMode)
    /\ highlight' = IF HasHighlightLayer THEN highlight ELSE <<>>
    /\ terrain' = (mapMode = "3d")
    /\ lastView' = modeView(mapMode)
    /\ mapPhase' = "ready"
    /\ mapReady' = TRUE
    /\ lastOp' = [op |-> "roadsOk", arg |-> Null]
    /\ UNCHANGED <<filterVars, hoveredId, selectedId, activeRoad, searchVars,
                   recentVars, reportVars, coordVars, debounceVars, mapMode, editVars, dmVars>>

\* ------------------------------------------------- Maps.tsx: map controls
\* variant: the mode effect without its mapReady guard
SetMapMode_NoReadyGuard(mode) ==
    /\ mode # mapMode
    /\ mapMode' = mode
    /\ sources' = modeSources(sources, mode)
    /\ layers' = modeLayers(layers, mode)
    /\ terrain' = (mode = "3d")
    /\ lastView' = modeView(mode)
    /\ lastOp' = [op |-> "setMapMode", arg |-> Null]
    /\ UNCHANGED <<roads, filterVars, mapPhase, mapReady, hoveredId, selectedId, highlight,
                   activeRoad, searchVars, recentVars, reportVars, coordVars, debounceVars, editVars, dmVars>>

\* the 2D / 3D buttons: setMapMode, then the effect on [mapMode, mapReady]
SetMapMode(mode) ==
    /\ mode # mapMode
    /\ mapMode' = mode
    /\ IF mapReady
       THEN /\ sources' = modeSources(sources, mode)
            /\ layers' = modeLayers(layers, mode)
            /\ terrain' = (mode = "3d")
            /\ lastView' = modeView(mode)
       ELSE UNCHANGED <<sources, layers, terrain, lastView>>
    /\ lastOp' = [op |-> "setMapMode", arg |-> Null]
    /\ UNCHANGED <<roads, filterVars, mapPhase, mapReady, hoveredId, selectedId, highlight,
                   activeRoad, searchVars, recentVars, reportVars, coordVars, debounceVars, editVars, dmVars>>

\* handleZoom, behind buttons that are disabled until mapReady
Zoom(direction) ==
    /\ mapReady
    /\ lastView' = [cmd |-> direction, id |-> Null]
    /\ lastOp' = [op |-> "zoom", arg |-> Null]
    /\ UNCHANGED <<roads, filterVars, mapVars, hoveredId, selectedId, highlight, activeRoad,
                   searchVars, recentVars, reportVars, coordVars, debounceVars, modeVars, editVars, dmVars>>

\* handleResetView, behind a button that is disabled until mapReady
ResetView ==
    /\ mapReady
    /\ lastView' = [cmd |-> "flyTo", id |-> Null]
    /\ lastOp' = [op |-> "resetView", arg |-> Null]
    /\ UNCHANGED <<roads, filterVars, mapVars, hoveredId, selectedId, highlight, activeRoad,
                   searchVars, recentVars, reportVars, coordVars, debounceVars, modeVars, editVars, dmVars>>

\* -------------------------------------------- Maps.tsx: pointer interaction
\* variant: the handler without its selectedRoadIdRef branch
Hover_IgnoresSelection(feature) ==
    /\ mapPhase = "ready"
    /\ feature \in HitFeatures
    /\ LET featureId == feature.id
       IN IF hoveredId # featureId
          THEN /\ hoveredId' = featureId
               /\ highlight' = featureId
          ELSE UNCHANGED <<hoveredId, highlight>>
    /\ lastOp' = [op |-> "hover", arg |-> feature.id]
    /\ UNCHANGED <<roads, filterVars, mapVars, selectedId, activeRoad, lastView,
                   searchVars, recentVars, reportVars, coordVars, debounceVars, modeVars, editVars, dmVars>>

\* map.on('mousemove', 'roads-hit')
Hover(feature) ==
    /\ mapPhase = "ready"
    /\ feature \in HitFeatures
    /\ IF selectedId # Null /\ selectedId # <<>>
       THEN /\ highlight' = setHighlightIfLayer(selectedId)
            /\ UNCHANGED hoveredId
       ELSE LET featureId == feature.id
            IN IF hoveredId # featureId
               THEN /\ hoveredId' = featureId
                    /\ highlight' = featureId
               ELSE UNCHANGED <<hoveredId, highlight>>
    /\ lastOp' = [op |-> "hover", arg |-> feature.id]
    /\ UNCHANGED <<roads, filterVars, mapVars, selectedId, activeRoad, lastView,
                   searchVars, recentVars, reportVars, coordVars, debounceVars, modeVars, editVars, dmVars>>

\* map.on('mouseleave', 'roads-hit'): resetHoverState
MouseLeave ==
    /\ mapPhase = "ready"
    /\ IF trim(searchTermRef) = <<>> /\ (selectedId = Null \/ selectedId = <<>>)
       THEN /\ hoveredId' = Null
            /\ activeRoad' = NoRoad
            /\ highlight' = setHighlightIfLayer(<<>>)
            /\ ReportsEffect(NoRoad, selectedId)
       ELSE /\ highlight' = IF selectedId # Null /\ selectedId # <<>>
                            THEN setHighlightIfLayer(selectedId) ELSE highlight
            /\ UNCHANGED <<hoveredId, activeRoad, reportVars>>
    /\ lastOp' = [op |-> "mouseLeave", arg |-> Null]
    /\ UNCHANGED <<roads, filterVars, mapVars, selectedId, lastView, searchVars,
                   recentVars, coordVars, debounceVars, modeVars, editVars, dmVars>>

\* map.on('click', 'roads-hit')
RoadClick(feature) ==
    /\ mapPhase = "ready"
    /\ feature \in HitFeatures
    /\ LET featureId == feature.id
           name == OrElse(feature.properties.name, <<>>)
           highway == OrElse(feature.properties.highway, <<>>)
           nextValue == OrElse(name, OrElse(highway, featureId))
           road == findRoadById(featureId)
           newActive == IF road # NoRoad THEN road ELSE activeRoad
           search == SearchEffect(nextValue, nextValue, <<>>)
       IN /\ selectedId' = featureId
          /\ hoveredId' = featureId
          /\ searchTerm' = nextValue
          /\ searchTermRef' = search.ref
          /\ searchResults' = search.results
          /\ activeRoad' = newActive
          /\ highlight' = setHighlightIfLayer(featureId)
          /\ ReportsEffect(newActive, featureId)
          /\ lastOp' = [op |-> "roadClick", arg |-> featureId]
    /\ UNCHANGED <<roads, filterVars, mapVars, lastView, searchDialogOpen, recentVars,
                   coordVars, debounceVars, modeVars, editVars, dmVars>>

\* the X button of the detail panel
isRoadSelected == activeRoad # NoRoad /\ selectedId = normalizeId(activeRoad.id)

showDetailPanel == activeRoad # NoRoad /\ isRoadSelected

\* variant: the X button clears selectedRoadIdRef and keeps the active road
ClosePanel_KeepsActiveRoad ==
    /\ showDetailPanel
    /\ selectedId' = Null
    /\ lastOp' = [op |-> "close", arg |-> Null]
    /\ UNCHANGED <<roads, filterVars, mapVars, hoveredId, highlight, activeRoad, lastView,
                   searchVars, recentVars, reportVars, coordVars, debounceVars, modeVars, editVars, dmVars>>

ClosePanel ==
    /\ showDetailPanel
    /\ selectedId' = Null
    /\ activeRoad' = NoRoad
    /\ ReportsEffect(NoRoad, Null)
    /\ lastOp' = [op |-> "close", arg |-> Null]
    /\ UNCHANGED <<roads, filterVars, mapVars, hoveredId, highlight, lastView,
                   searchVars, recentVars, coordVars, debounceVars, modeVars, editVars, dmVars>>

\* the Edit Data and View Details buttons of the detail panel
PanelButton ==
    /\ showDetailPanel
    /\ highlight' = setHighlightIfLayer(<<>>)
    /\ lastOp' = [op |-> "panelButton", arg |-> Null]
    /\ UNCHANGED <<roads, filterVars, mapVars, hoveredId, selectedId, activeRoad,
                   lastView, searchVars, recentVars, reportVars, coordVars, debounceVars, modeVars, editVars, dmVars>>

\* --------------------------------------------- recent searches and search
RecentCap == 3

getRoadPrimaryLabel(road) ==
    Coalesce(road.name, Coalesce(road.highway, sRuas \o normalizeId(road.id)))

getRoadSecondaryLabel(road) ==
    Coalesce(road.highway, Coalesce(road.kecamatan, Coalesce(road.kota, sDash)))

recentEntry(road) ==
    [id |-> normalizeId(road.id),
     label |-> getRoadPrimaryLabel(road),
     secondary |-> getRoadSecondaryLabel(road)]

\* variant: the entry is put in front without removing the older one
nextRecent_KeepsOlder(prev, road) ==
    FirstN(<<recentEntry(road)>> \o prev, RecentCap)

\* variant: the list is not cut to RecentCap
nextRecent_NoCap(prev, road) ==
    <<recentEntry(road)>> \o SelectSeq(prev, LAMBDA item : item.id # recentEntry(road).id)

\* the updater of setRecentSearches in addRecentSearch / updateRecentSearches
nextRecent(prev, road) ==
    LET entry == recentEntry(road)
        filtered == SelectSeq(prev, LAMBDA item : item.id # entry.id)
    IN FirstN(<<entry>> \o filtered, RecentCap)

\* localStorage slot: absent, not parsable as an array, or a list of entries
NoStorage == [kind |-> "absent", items |-> <<>>]
Stored(items) == [kind |-> "list", items |-> items]

loadRecentSearches(slot) ==
    IF slot.kind = "list" THEN FirstN(slot.items, RecentCap) ELSE <<>>

persistRecentSearches(items) == Stored(items)

\* the search button of the map controls
OpenSearch ==
    /\ mapReady
    /\ ~searchDialogOpen
    /\ searchDialogOpen' = TRUE
    /\ UNCHANGED <<lastOp, roads, filterVars, mapVars, interVars, searchTermRef, searchTerm,
                   searchResults, recentVars, reportVars, coordVars, debounceVars, modeVars, editVars, dmVars>>

\* Escape in the search input, or the dialog dismissed
CloseSearch ==
    /\ searchDialogOpen
    /\ searchDialogOpen' = FALSE
    /\ UNCHANGED <<lastOp, roads, filterVars, mapVars, interVars, searchTermRef, searchTerm,
                   searchResults, recentVars, reportVars, coordVars, debounceVars, modeVars, editVars, dmVars>>

TypedTerms == {<<>>, sTypedJl}

\* onChange of the search input
TypeSearch(text) ==
    /\ searchDialogOpen
    /\ text # searchTerm
    /\ searchTerm' = text
    /\ LET search == SearchEffect(text, searchTermRef, searchResults)
       IN /\ searchTermRef' = search.ref
          /\ searchResults' = search.results
    /\ lastOp' = [op |-> "typeSearch", arg |-> Null]
    /\ UNCHANGED <<roads, filterVars, mapVars, interVars, searchDialogOpen, recentVars,
                   reportVars, coordVars, debounceVars, modeVars, editVars, dmVars>>

\* the roads the open search dialog offers: the results while a term is typed,
\* else the recent entries that resolve to a loaded road; Enter picks result 0
SelectableRoads ==
    IF trim(searchTerm) # <<>>
    THEN {searchResults[i] : i \in 1..Len(searchResults)}
    ELSE ({findRoadById(recentSearches[i].id) : i \in 1..Len(recentSearches)} \ {NoRoad})
         \cup (IF searchResults # <<>> THEN {searchResults[1]} ELSE {})

\* focusRoad returns before touching anything when the road has no coordinates
CanFocus(road) == HasGeom(road) /\ Len(road.geom.coordinates) > 0

\* handleSelectRoad: focusRoad, search text, recent list, dialog closed
SelectRoad(road) ==
    /\ searchDialogOpen
    /\ road \in SelectableRoads
    /\ LET id == normalizeId(road.id)
           nextValue == Coalesce(road.name, <<>>)
           newActive == IF CanFocus(road) THEN road ELSE activeRoad
           newSelected == IF CanFocus(road) THEN id ELSE selectedId
           search == SearchEffect(nextValue, nextValue, <<>>)
       IN /\ lastView' = IF CanFocus(road) THEN [cmd |-> "fitBounds", id |-> id] ELSE lastView
          /\ hoveredId' = IF CanFocus(road) THEN id ELSE hoveredId
          /\ selectedId' = newSelected
          /\ activeRoad' = newActive
          /\ highlight' = IF CanFocus(road) THEN setHighlightIfLayer(id) ELSE highlight
          /\ searchTerm' = nextValue
          /\ searchTermRef' = search.ref
          /\ searchResults' = search.results
          /\ recentSearches' = nextRecent(recentSearches, road)
          \* the write to storage is taken to succeed here; addRecentSearch models its failure
          /\ storage' = persistRecentSearches(nextRecent(recentSearches, road))
          /\ searchDialogOpen' = FALSE
          /\ ReportsEffect(newActive, newSelected)
          /\ lastOp' = [op |-> "selectRoad", arg |-> id]
    /\ UNCHANGED <<roads, filterVars, mapVars, coordVars, debounceVars, modeVars, editVars, dmVars>>

\* --------------------------------------------------------- the map page
\* what the road query returns to the map page: rows 1, 2 and 3 of the pool
MapRoadLists ==
    { l \in RoadLists : /\ \A i \in 1..Len(l) : l[i].id \in {1, 2, 3}
                        /\ \A i \in 1..(Len(l) - 1) : l[i].id < l[i + 1].id }

InitMap ==
    /\ InitMounted
    /\ roads = <<>>
    /\ storage = NoStorage
    /\ recentSearches = loadRecentSearches(storage)

NextMap ==
    \/ MapLoad
    \/ RoadsFetchError
    \/ \E data \in MapRoadLists : RoadsFetchOk(data)
    \/ \E feature \in HitFeatures : Hover(feature)
    \/ MouseLeave
    \/ \E feature \in HitFeatures : RoadClick(feature)
    \/ ClosePanel
    \/ PanelButton
    \/ OpenSearch
    \/ CloseSearch
    \/ \E text \in TypedTerms : TypeSearch(text)
    \/ \E road \in SelectableRoads : SelectRoad(road)
    \/ \E f \in fetches : ReportsFetchError(f)
    \/ \E f \in fetches : \E data \in ReportResponses(f.roadId) : ReportsFetchOk(f, data)

SpecMap == InitMap /\ [][NextMap]_vars

\* ------------------------------------------- the coordinator over filters
\* The page that feeds useFilters' filteredRoads to the map and reacts to a
\* filter change is modelled from the design document (section 4.8, rules
\* 2 to 6); the filter lists and the visible subset are useFilters' own.

\* the roads the coordinator can look up: the visible subset
coordDirectory == filteredRoads(roads, filters)

coordFindById(id) ==
    IF \E i \in 1..Len(coordDirectory) : normalizeId(coordDirectory[i].id) = id
    THEN coordDirectory[CHOOSE i \in 1..Len(coordDirectory) :
                 /\ normalizeId(coordDirectory[i].id) = id
                 /\ \A j \in 1..(i - 1) : normalizeId(coordDirectory[j].id) # id]
    ELSE NoRoad

\* the features of the road source: the visible roads that have a geometry
CoordFeatures ==
    IF includes(layers, "roads-hit")
    THEN {buildFeatureCollection(coordDirectory)[i] :
              i \in 1..Len(buildFeatureCollection(coordDirectory))}
    ELSE {}

\* rule 2: click on a road feature
\* the road click the map fires for the pointer event of a marker click is
\* dropped, and the guard with it
CoordRoadClick(feature) ==
    /\ mapPhase = "ready"
    /\ feature \in CoordFeatures
    /\ IF skipRoadClick
       THEN /\ skipRoadClick' = FALSE
            /\ lastOp' = [op |-> "roadClickSkipped", arg |-> feature.id]
            /\ UNCHANGED <<selectedId, hoveredId, highlightSuppressed, highlight, searchTerm>>
       ELSE /\ selectedId' = feature.id
            /\ hoveredId' = feature.id
            /\ highlightSuppressed' = FALSE
            /\ highlight' = setHighlightIfLayer(feature.id)
            /\ searchTerm' = OrElse(feature.properties.name, OrElse(feature.properties.highway, feature.id))
            /\ lastOp' = [op |-> "roadClick", arg |-> feature.id]
            /\ UNCHANGED skipRoadClick
    /\ UNCHANGED <<roads, filterVars, mapVars, activeRoad, lastView, searchTermRef,
                   searchResults, searchDialogOpen, recentVars, reportVars, activeReportId, debounceVars, modeVars, editVars, dmVars>>

\* rule 3: click on a report marker whose road is in the directory
CoordReportClick(report) ==
    /\ mapPhase = "ready"
    /\ ~skipRoadClick
    /\ coordFindById(report.road_id) # NoRoad
    /\ selectedId' = report.road_id
    /\ highlightSuppressed' = TRUE
    /\ activeReportId' = report.id
    /\ skipRoadClick' = TRUE
    /\ highlight' = setHighlightIfLayer(<<>>)
    /\ lastView' = [cmd |-> "fitBounds", id |-> report.road_id]
    /\ lastOp' = [op |-> "reportClick", arg |-> report.road_id]
    /\ UNCHANGED <<roads, filterVars, mapVars, hoveredId, activeRoad, searchVars,
                   recentVars, reportVars, debounceVars, modeVars, editVars, dmVars>>

\* the next tick after a marker click: the guard is dropped unused
CoordSkipExpire ==
    /\ skipRoadClick
    /\ skipRoadClick' = FALSE
    /\ lastOp' = [op |-> "tick", arg |-> Null]
    /\ UNCHANGED <<roads, filterVars, mapVars, interVars, searchVars, recentVars, reportVars,
                   highlightSuppressed, activeReportId, debounceVars, modeVars, editVars, dmVars>>

\* rule 4: search selection, focus by id
CoordFocusRoad(road) ==
    /\ mapPhase = "ready"
    /\ ~skipRoadClick
    /\ coordFindById(normalizeId(road.id)) = road
    /\ CanFocus(road)
    /\ selectedId' = normalizeId(road.id)
    /\ hoveredId' = normalizeId(road.id)
    /\ highlightSuppressed' = FALSE
    /\ highlight' = setHighlightIfLayer(normalizeId(road.id))
    /\ lastView' = [cmd |-> "fitBounds", id |-> normalizeId(road.id)]
    /\ searchTerm' = getRoadPrimaryLabel(road)
    /\ lastOp' = [op |-> "focusRoad", arg |-> normalizeId(road.id)]
    /\ UNCHANGED <<roads, filterVars, mapVars, activeRoad, searchTermRef, searchResults,
                   searchDialogOpen, recentVars, reportVars, activeReportId, skipRoadClick,
                   debounceVars, modeVars, editVars, dmVars>>

\* rule 6: close
CoordClose ==
    /\ selectedId # Null
    /\ ~skipRoadClick
    /\ selectedId' = Null
    /\ highlightSuppressed' = FALSE
    /\ activeReportId' = Null
    /\ highlight' = setHighlightIfLayer(<<>>)
    /\ lastOp' = [op |-> "close", arg |-> Null]
    /\ UNCHANGED <<roads, filterVars, mapVars, hoveredId, activeRoad, lastView,
                   searchVars, recentVars, reportVars, skipRoadClick, debounceVars, modeVars, editVars, dmVars>>

\* rule 5: what follows a change of the filter lists to newFilters
CoordFilterEffect(newFilters) ==
    LET subset == filteredRoads(roads, newFilters)
        stillVisible == \E i \in 1..Len(subset) : normalizeId(subset[i].id) = selectedId
    IN IF selectedId # Null /\ ~stillVisible
       THEN /\ selectedId' = Null
            /\ activeReportId' = Null
            /\ highlightSuppressed' = FALSE
            /\ highlight' = setHighlightIfLayer(<<>>)
       ELSE UNCHANGED <<selectedId, activeReportId, highlightSuppressed, highlight>>

\* the filter values the coordinator's runs pick in the filter dialog
CoordFilterValues(d) ==
    CASE d = "condition" -> {sGood, sMinorDamage}
      [] d = "status" -> {sOpen}
      [] d = "rt" -> {NumToString(1)}
      [] OTHER -> {}

CoordFilterChange(newFilters) ==
    /\ mapPhase = "ready"
    /\ ~skipRoadClick
    /\ filters' = newFilters
    /\ SelectedCount(newFilters) <= MaxSelected
    /\ CoordFilterEffect(newFilters)
    /\ UNCHANGED <<roads, mapVars, hoveredId, activeRoad, lastView, searchVars,
                   recentVars, reportVars, skipRoadClick, debounceVars, modeVars, editVars, dmVars>>

CoordToggleFilter(key, value) ==
    /\ CoordFilterChange([filters EXCEPT ![key] = toggled(filters[key], value)])
    /\ lastOp' = [op |-> "toggleFilterValue", arg |-> selectedId]

CoordSetFilter(key, value) ==
    /\ CoordFilterChange([filters EXCEPT ![key] =
                              IF value = Null \/ value = <<>> THEN <<>> ELSE <<value>>])
    /\ lastOp' = [op |-> "setFilterValue", arg |-> selectedId]

CoordResetFilters ==
    /\ CoordFilterChange(createInitialFilters)
    /\ lastOp' = [op |-> "resetFilters", arg |-> selectedId]

NextCoord ==
    \/ MapLoad
    \/ RoadsFetchError
    \/ \E data \in MapRoadLists : RoadsFetchOk(data)
    \/ \E feature \in CoordFeatures : CoordRoadClick(feature)
    \/ \E report \in ReportTable : CoordReportClick(report)
    \/ CoordSkipExpire
    \/ \E i \in 1..Len(coordDirectory) : CoordFocusRoad(coordDirectory[i])
    \/ CoordClose
    \/ \E d \in Dimensions : \E v \in CoordFilterValues(d) : CoordToggleFilter(d, v)
    \/ \E d \in Dimensions : \E v \in CoordFilterValues(d) \cup {Null} : CoordSetFilter(d, v)
    \/ CoordResetFilters

SpecCoord == InitMap /\ [][NextCoord]_vars

\* ------------------------------------------------------ filter properties
RECURSIVE IsSubsequence(_, _)
IsSubsequence(a, b) ==
    IF a = <<>> THEN TRUE
    ELSE IF b = <<>> THEN FALSE
    ELSE IF Head(a) = Head(b) THEN IsSubsequence(Tail(a), Tail(b))
    ELSE IsSubsequence(a, Tail(b))

visible == filteredRoads(roads, filters)

InVisible(road) == \E j \in 1..Len(visible) : visible[j] = road

\* C1: the filtered road list is a sub-list of the loaded roads, in their order,
\* and it is the whole list whenever every dimension list is empty.
C1_FilteredIsSublist ==
    /\ IsSubsequence(visible, roads)
    /\ (\A d \in Dimensions : filters[d] = <<>>) => visible = roads

\* a toggle left a proper sublist
C1_Witness ==
    /\ lastOp.op = "toggleFilterValue"
    /\ Len(roads) >= 2
    /\ Len(visible) = 1

\* the raw value a dimension reads from a road row
RawValue(road, d) ==
    CASE d = "condition" -> road.condition
      [] d = "status" -> road.status
      [] d = "kelurahan" -> road.kelurahan
      [] d = "jenisJalan" -> road.highway
      [] d = "tipeJalan" -> getRoadType(road)
      [] d = "rt" -> NumOrNull(road.rt)
      [] OTHER -> NumOrNull(road.rw)

TrimmedLower(v) == IF v = Null THEN <<>> ELSE toLowerCase(trim(v))

\* trimmed, lower-cased, and for a condition value that is a canonical option
\* up to its separators, the canonical spelling
ConditionKey(v) ==
    LET t == TrimmedLower(v)
        c == trim(collapseSpaces(replaceSeparators(t)))
    IN IF c \in {sGood, sMinorDamage, sSevereDamage} THEN c ELSE t

\* C2 as stated: membership is decided in every dimension by the trimmed and
\* lower-cased value of the road.
C2_Original ==
    \A i \in 1..Len(roads) :
        InVisible(roads[i]) <=>
            \A d \in Dimensions :
                filters[d] # <<>> =>
                    /\ TrimmedLower(RawValue(roads[i], d)) # <<>>
                    /\ includes(filters[d], TrimmedLower(RawValue(roads[i], d)))

\* C2 amended: as stated for status, kelurahan, jenisJalan, tipeJalan, rt and rw;
\* the condition dimension compares the canonical spelling of the condition.
C2_Amended ==
    \A i \in 1..Len(roads) :
        InVisible(roads[i]) <=>
            \A d \in Dimensions :
                filters[d] # <<>> =>
                    LET v == IF d = "condition"
                             THEN ConditionKey(RawValue(roads[i], d))
                             ELSE TrimmedLower(RawValue(roads[i], d))
                    IN v # <<>> /\ includes(filters[d], v)

\* a dimension with two selected values, one road kept and one dropped
C2_Witness ==
    /\ lastOp.op \in {"toggleFilterValue", "setFilterValue"}
    /\ Cardinality({d \in Dimensions : filters[d] # <<>>}) >= 1
    /\ \E d \in Dimensions : Len(filters[d]) = 2
    /\ Len(roads) = 2
    /\ Len(visible) = 1

\* ------------------------------------------------- coordinator properties
Selected == selectedId # Null /\ selectedId # <<>>

\* whether the filter lists f keep a road, dimension by dimension
KeptBy(f, road) ==
    \A d \in Dimensions :
        f[d] # <<>> =>
            LET v == IF d = "condition"
                     THEN ConditionKey(RawValue(road, d))
                     ELSE TrimmedLower(RawValue(road, d))
            IN v # <<>> /\ includes(f[d], v)

SelectedShownBy(f) ==
    \E i \in 1..Len(roads) : normalizeId(roads[i].id) = selectedId /\ KeptBy(f, roads[i])

C4_SelectionWinsOverHover ==
    [][\A feature \in HitFeatures :
          (Selected /\ feature.id # selectedId /\ Hover(feature))
              => (highlight' = selectedId /\ hoveredId' = hoveredId /\ hoveredId' # feature.id)]_vars

C4_Witness ==
    /\ lastOp.op = "hover"
    /\ Selected
    /\ lastOp.arg # selectedId
    /\ highlight = selectedId

\* C5: whenever a road is selected and highlighting is not suppressed, the
\* highlight layer's filter names the selected road.
C5_HighlightFollowsSelection ==
    (Selected /\ ~highlightSuppressed) => highlight = selectedId

\* C6: a report response is applied only when it answers the query started for
\* the road selected last; a response whose query was cancelled changes nothing.
AtMostOneLive ==
    \A f, g \in fetches : (~f.cancelled /\ ~g.cancelled) => f = g

C6_OnlyLatestResponseApplied ==
    /\ [](AtMostOneLive /\ \A f \in fetches : ~f.cancelled => f.roadId = selectedId)
    /\ [][\A f \in fetches :
            (f.cancelled /\ (ReportsFetchError(f)
                             \/ \E data \in ReportResponses(f.roadId) : ReportsFetchOk(f, data)))
                => UNCHANGED <<reports, reportsError, reportsLoading>>]_vars

\* a stale response for road 1 arrived while road 2's reports were displayed as loading
C6_Witness ==
    /\ lastOp.op \in {"reportsOk", "reportsError"}
    /\ Selected
    /\ lastOp.arg # selectedId
    /\ reportsLoading
    /\ \E f \in fetches : ~f.cancelled

\* C7: a report query starts only for the selected road, never on hover, and
\* with no road selected the loader is empty, without error and not loading.
StartedFetches == { f \in fetches' : ~f.cancelled /\ f \notin fetches }

C7_FetchOnlyForSelected ==
    /\ []((~Selected) => (reports = <<>> /\ reportsError = Null /\ ~reportsLoading))
    /\ [][\A f \in StartedFetches :
            /\ f.roadId # Null
            /\ f.roadId = selectedId'
            /\ lastOp'.op \in {"roadClick", "selectRoad"}]_vars
    /\ [][\A feature \in HitFeatures : Hover(feature) => UNCHANGED reportVars]_vars

\* a query in flight for the road just selected, an older one cancelled
C7_Witness ==
    /\ lastOp.op \in {"roadClick", "selectRoad"}
    /\ Selected
    /\ reportsLoading
    /\ \E f \in fetches : ~f.cancelled /\ f.roadId = selectedId
    /\ \E f \in fetches : f.cancelled

\* C8: a successful response for the selected road sets the list to the rows
\* fetched, in fetched order, whose status is not done; no done report is listed.
KeptInOrder(list, data) ==
    /\ IsSubsequence(list, data)
    /\ \A i \in 1..Len(data) :
          (\E j \in 1..Len(list) : list[j] = data[i])
              <=> (data[i].status = Null \/ data[i].status # sDone)

C8_ActiveReportsExcludeDone ==
    /\ [](\A i \in 1..Len(reports) : reports[i].status # sDone)
    /\ [][\A f \in fetches : \A data \in ReportResponses(f.roadId) :
            (~f.cancelled /\ ReportsFetchOk(f, data))
                => /\ KeptInOrder(reports', data)
                   /\ reportsError' = Null
                   /\ ~reportsLoading']_vars

\* two active reports listed after a response
C8_Witness ==
    /\ lastOp.op = "reportsOk"
    /\ lastOp.arg = selectedId
    /\ Len(reports) = 2
    /\ ~reportsLoading

\* C9: a failed query for the selected road leaves an error string, loading
\* false, and the roads, the selection, the active road and the highlight as they were.
C9_FailureIsLoaderScoped ==
    [][\A f \in fetches :
          (~f.cancelled /\ ReportsFetchError(f))
              => /\ reportsError' # Null
                 /\ ~reportsLoading'
                 /\ UNCHANGED <<roads, selectedId, activeRoad, highlight, hoveredId>>]_vars

C9_Witness ==
    /\ lastOp.op = "reportsError"
    /\ lastOp.arg = selectedId
    /\ reportsError = sReportsFailed
    /\ ~reportsLoading
    /\ highlight = selectedId
    /\ activeRoad # NoRoad

\* ------------------------------------------------- the recent-search list
MaxStored == 3

sOldLabel == <<"o", "l", "d">>

\* entries a stored list can hold: the entries of roads 1, 2 and 3 as written by
\* addRecentSearch, an entry of road 1 written under an older label, and an
\* entry of a road that is no longer loaded
StoredEntryPool ==
    { recentEntry(r) : r \in { x \in RoadPool : x.id \in {1, 2, 3} } }
        \cup { [id |-> NumToString(1), label |-> sOldLabel, secondary |-> sDash],
               [id |-> NumToString(9), label |-> sOldLabel, secondary |-> sDash] }

RECURSIVE StoredListsOfLen(_)
StoredListsOfLen(n) ==
    IF n = 0 THEN {<<>>}
    ELSE { Append(l, e) : l \in StoredListsOfLen(n - 1), e \in StoredEntryPool }

StoredLists == UNION { StoredListsOfLen(n) : n \in 0..MaxStored }

\* useRoadSearch.addRecentSearch / Maps.updateRecentSearches
addRecentSearch(road) ==
    /\ \E i \in 1..Len(roads) : roads[i] = road
    /\ recentSearches' = nextRecent(recentSearches, road)
    /\ \/ storage' = persistRecentSearches(nextRecent(recentSearches, road))
       \/ UNCHANGED storage    \* setItem threw: caught and logged
    /\ lastOp' = [op |-> "addRecentSearch", arg |-> normalizeId(road.id)]
    /\ UNCHANGED <<roads, filterVars, mapVars, interVars, searchVars, reportVars, coordVars, debounceVars, modeVars, editVars, dmVars>>

\* the page is opened again: the list is read back from storage
Rehydrate ==
    /\ recentSearches' = loadRecentSearches(storage)
    /\ lastOp' = [op |-> "rehydrate", arg |-> Null]
    /\ UNCHANGED <<roads, filterVars, mapVars, interVars, searchVars, storage, reportVars,
                   coordVars, debounceVars, modeVars, editVars, dmVars>>

InitRecent ==
    /\ InitMounted
    /\ roads \in MapRoadLists
    /\ roads # <<>>
    /\ storage \in {NoStorage} \cup { Stored(l) : l \in StoredLists }
    /\ recentSearches = loadRecentSearches(storage)

NextRecent ==
    \/ \E i \in 1..Len(roads) : addRecentSearch(roads[i])
    \/ Rehydrate

SpecRecent == InitRecent /\ [][NextRecent]_vars

\* the lists persistRecentSearches has written in earlier sessions, over roads
\* loaded then: entries with distinct ids, at most RecentCap of them
WrittenLists ==
    { l \in StoredLists :
        /\ Len(l) <= RecentCap
        /\ \A i, j \in 1..Len(l) : i # j => l[i].id # l[j].id }

\* startup with a slot that only this page has written
InitRecentWritten ==
    /\ InitMounted
    /\ roads \in MapRoadLists
    /\ roads # <<>>
    /\ storage \in {NoStorage} \cup { Stored(l) : l \in WrittenLists }
    /\ recentSearches = loadRecentSearches(storage)

SpecRecentWritten == InitRecentWritten /\ [][NextRecent]_vars

\* ------------------------------------------------ recent-list properties
CountId(list, id) == Cardinality({ i \in 1..Len(list) : list[i].id = id })

\* C10: after addRecentSearch(road) the list holds exactly one entry with the
\* road's normalized id, at the front; adding the road again changes nothing;
\* the other entries keep their relative order.
C10_AddRecentDedupFront ==
    [][\A i \in 1..Len(roads) :
          addRecentSearch(roads[i])
              => /\ Len(recentSearches') >= 1
                 /\ recentSearches'[1].id = normalizeId(roads[i].id)
                 /\ CountId(recentSearches', normalizeId(roads[i].id)) = 1
                 /\ nextRecent(recentSearches', roads[i]) = recentSearches'
                 /\ IsSubsequence(Tail(recentSearches'), recentSearches)]_vars

\* the road was already in the list, behind another entry
C10_Witness ==
    /\ lastOp.op = "addRecentSearch"
    /\ Len(recentSearches) >= 2
    /\ recentSearches[1].id = lastOp.arg
    /\ storage.kind = "list"
    /\ Len(storage.items) >= 2
    /\ storage.items = recentSearches

\* C11: the recent list never holds more than 3 entries nor two entries with
\* one id; each addRecentSearch puts the road first and keeps the older entries
\* behind it in their order, and what it writes to storage is the new list.
C11_RecentListWellFormed ==
    /\ [](/\ Len(recentSearches) <= 3
          /\ \A i, j \in 1..Len(recentSearches) :
                 i # j => recentSearches[i].id # recentSearches[j].id)
    /\ [][\A i \in 1..Len(roads) :
            addRecentSearch(roads[i])
                => /\ recentSearches'[1].id = normalizeId(roads[i].id)
                   /\ IsSubsequence(Tail(recentSearches'), recentSearches)
                   /\ (storage' # storage => storage' = Stored(recentSearches'))]_vars

\* a full list after an add that pushed in front of two entries of roads not loaded now
C11_Witness ==
    /\ lastOp.op = "addRecentSearch"
    /\ Len(recentSearches) = 3
    /\ recentSearches[1].id = lastOp.arg
    /\ recentSearches[3].id = NumToString(9)
    /\ storage = Stored(recentSearches)

\* --------------------------------------------- useRoadSearch: the search
MaxDirectory == 10

sMelatiTyped == <<" ", "M", "E", "L", "A", "T", "I">>
sNoMatch == <<"x", "y", "z">>

\* road i of a long directory: road 3 is Jalan Melati without a highway class,
\* road 2 has no name, every road but road 3 has a highway class
SearchRoad(i) ==
    [NoRoad EXCEPT !.id = i,
                   !.geom = Line(<<<<i, 0>>, <<i, 1>>>>),
                   !.name = IF i = 3 THEN sJalanMelati ELSE IF i = 2 THEN Null ELSE sJlA,
                   !.highway = IF i = 3 THEN Null
                               ELSE IF i % 2 = 0 THEN sPrimaryCap ELSE sPrimary]

\* the directories handed to the hook: the first n roads, in either order
SearchDirectories ==
    { [i \in 1..n |-> SearchRoad(i)] : n \in 0..MaxDirectory }
        \cup { [i \in 1..n |-> SearchRoad(n + 1 - i)] : n \in 0..MaxDirectory }

SearchTexts == {<<>>, sBlank, sMelatiTyped, sPrimaryCap, sTypedJl, sNoMatch}

\* the effect on [debouncedSearchTerm, roads]
hookSearchResults(rs, debounced) ==
    LET term == toLowerCase(trim(debounced))
    IN IF term = <<>> THEN <<>> ELSE searchMatches(rs, term)

\* variant: the cleanup of the effect on [searchTerm] clears no timer, the
\* pending one fires with the text it was started with
HookSetSearchTerm_KeepsPendingTimer(text) ==
    /\ text # searchTerm
    /\ searchTerm' = text
    /\ debounceTimer' = IF debounceTimer # Null THEN debounceTimer ELSE text
    /\ lastOp' = [op |-> "setSearchTerm", arg |-> Null]
    /\ UNCHANGED <<roads, filterVars, mapVars, interVars, searchTermRef, searchResults,
                   searchDialogOpen, recentVars, reportVars, coordVars, debouncedSearchTerm, modeVars, editVars, dmVars>>

\* setSearchTerm(text): the effect on [searchTerm] clears the pending timer and
\* starts one that carries the new text
HookSetSearchTerm(text) ==
    /\ text # searchTerm
    /\ searchTerm' = text
    /\ debounceTimer' = text
    /\ lastOp' = [op |-> "setSearchTerm", arg |-> Null]
    /\ UNCHANGED <<roads, filterVars, mapVars, interVars, searchTermRef, searchResults,
                   searchDialogOpen, recentVars, reportVars, coordVars, debouncedSearchTerm, modeVars, editVars, dmVars>>

\* the timer fires after SEARCH_DEBOUNCE_MS: setDebouncedSearchTerm, then the
\* search effect if the debounced term changed
DebounceFire ==
    /\ debounceTimer # Null
    /\ debouncedSearchTerm' = debounceTimer
    /\ debounceTimer' = Null
    /\ searchResults' = IF debounceTimer # debouncedSearchTerm
                        THEN hookSearchResults(roads, debounceTimer)
                        ELSE searchResults
    /\ lastOp' = [op |-> "debounceFire", arg |-> Null]
    /\ UNCHANGED <<roads, filterVars, mapVars, interVars, searchTermRef, searchTerm,
                   searchDialogOpen, recentVars, reportVars, coordVars, modeVars, editVars, dmVars>>

\* the hook is rendered with another roads array: the search effect runs again
HookRoadsChange(data) ==
    /\ data # roads
    /\ roads' = data
    /\ searchResults' = hookSearchResults(data, debouncedSearchTerm)
    /\ lastOp' = [op |-> "roadsChange", arg |-> Null]
    /\ UNCHANGED <<filterVars, mapVars, interVars, searchTermRef, searchTerm,
                   searchDialogOpen, recentVars, reportVars, coordVars, debounceVars, modeVars, editVars, dmVars>>

InitSearch ==
    /\ InitMounted
    /\ roads = <<>>
    /\ storage = NoStorage
    /\ recentSearches = loadRecentSearches(storage)

NextSearch ==
    \/ \E text \in SearchTexts : HookSetSearchTerm(text)
    \/ DebounceFire
    \/ \E data \in SearchDirectories : HookRoadsChange(data)

SpecSearch == InitSearch /\ [][NextSearch]_vars

\* a timer that is not cleared fires
SpecSearchLive == SpecSearch /\ WF_vars(DebounceFire)

\* ------------------------------------------------------ search properties
SameIgnoringCase(a, b) ==
    Len(a) = Len(b) /\ \A k \in 1..Len(a) : LowerChar(a[k]) = LowerChar(b[k])

ContainsIgnoringCase(field, t) ==
    field # Null /\ \E i \in 0..(Len(field) - Len(t)) :
                        SameIgnoringCase(SubSeq(field, i + 1, i + Len(t)), t)

RoadMatches(road, t) ==
    ContainsIgnoringCase(road.name, t) \/ ContainsIgnoringCase(road.highway, t)

\* list holds the first eight roads of rs that match t, in the order of rs
FirstEightMatches(list, rs, t) ==
    /\ IsSubsequence(list, rs)
    /\ Len(list) <= 8
    /\ \A j \in 1..Len(list) : RoadMatches(list[j], t)
    /\ \A i \in 1..Len(rs) :
          (RoadMatches(rs[i], t) /\ ~\E j \in 1..Len(list) : list[j] = rs[i])
              => Cardinality({ k \in 1..(i - 1) : RoadMatches(rs[k], t) }) >= 8

\* C12: for a non-empty trimmed debounced term the results are the first 8
\* roads, in directory order, whose name or highway class contains the term
\* ignoring case; an empty or blank term yields no results; "melati" finds
\* exactly the one road named Jalan Melati.
C12_SearchResults ==
    /\ trim(debouncedSearchTerm) = <<>> => searchResults = <<>>
    /\ trim(debouncedSearchTerm) # <<>>
          => FirstEightMatches(searchResults, roads, trim(debouncedSearchTerm))
    /\ (SameIgnoringCase(trim(debouncedSearchTerm), <<"m", "e", "l", "a", "t", "i">>)
          /\ Cardinality({ i \in 1..Len(roads) : roads[i].name = sJalanMelati }) = 1)
          => (Len(searchResults) = 1 /\ searchResults[1].name = sJalanMelati)

\* nine roads match the term and eight are listed
C12_Witness ==
    /\ lastOp.op = "debounceFire"
    /\ trim(debouncedSearchTerm) # <<>>
    /\ Cardinality({ i \in 1..Len(roads) : RoadMatches(roads[i], trim(debouncedSearchTerm)) }) > 8
    /\ Len(searchResults) = 8

\* ------------------------------------- the road source and layer setup
\* the sources and layers a map can hold when the setup runs: any of the
\* page's ids, each at most once, in any order
RECURSIVE OrderedSubsets(_)
OrderedSubsets(ids) ==
    {<<>>} \cup UNION { { <<x>> \o l : l \in OrderedSubsets(ids \ {x}) } : x \in ids }

SourceIds == {"roads", "jalan-terrain"}
LayerIds == {"roads-line", "roads-hit", "roads-highlight", "jalan-sky"}

\* the setup block runs on the map as it is
RoadSetup ==
    /\ mapPhase = "ready"
    /\ sources' = setupRoadSource(sources)
    /\ layers' = setupRoadLayers(layers)
    /\ highlight' = IF HasHighlightLayer THEN highlight ELSE <<>>
    /\ lastOp' = [op |-> "roadSetup", arg |-> Null]
    /\ UNCHANGED <<roads, filterVars, mapPhase, mapReady, hoveredId, selectedId, activeRoad,
                   lastView, searchVars, recentVars, reportVars, coordVars, debounceVars, modeVars, editVars, dmVars>>

InitLayers ==
    /\ roads \in MapRoadLists
    /\ filters = createInitialFilters
    /\ lastOp = [op |-> "init", arg |-> Null]
    /\ mapPhase = "ready"
    /\ mapReady = TRUE
    /\ sources \in OrderedSubsets(SourceIds)
    /\ layers \in OrderedSubsets(LayerIds)
    /\ hoveredId = Null
    /\ selectedId = Null
    /\ highlight = <<>>
    /\ activeRoad = NoRoad
    /\ lastView = [cmd |-> "none", id |-> Null]
    /\ searchTermRef = <<>>
    /\ searchTerm = <<>>
    /\ searchResults = <<>>
    /\ searchDialogOpen = FALSE
    /\ recentSearches = <<>>
    /\ storage = NoStorage
    /\ reports = <<>>
    /\ reportsLoading = FALSE
    /\ reportsError = Null
    /\ fetches = {}
    /\ highlightSuppressed = FALSE
    /\ activeReportId = Null
    /\ skipRoadClick = FALSE
    /\ debouncedSearchTerm = <<>>
    /\ debounceTimer = <<>>
    /\ mapMode = "2d"
    /\ terrain = FALSE
    /\ editDialogOpen = FALSE
    /\ editSaving = FALSE
    /\ editError = Null
    /\ savesInFlight = <<>>
    /\ roadUpdated = <<>>
    /\ InitTable

NextLayers == RoadSetup

SpecLayers == InitLayers /\ [][NextLayers]_vars

CountOf(list, id) == Cardinality({ i \in 1..Len(list) : list[i] = id })

RoadLayersOnce(ss, ls) ==
    /\ CountOf(ss, "roads") = 1
    /\ CountOf(ls, "roads-line") = 1
    /\ CountOf(ls, "roads-hit") = 1
    /\ CountOf(ls, "roads-highlight") = 1
    /\ CountOf(ss, "error") = 0
    /\ CountOf(ls, "error") = 0

\* C13: every run of the road source and layer setup leaves one roads source
\* and each of roads-line, roads-hit and roads-highlight once, without an
\* error; a run on a map that already has them adds nothing.
C13_SetupIdempotent ==
    [][RoadSetup =>
          /\ RoadLayersOnce(sources', layers')
          /\ RoadLayersOnce(sources, layers) => (sources' = sources /\ layers' = layers)
          /\ Len(layers') <= Len(layers) + 3]_vars

\* the setup has run again on a map that held the three layers and the source
C13_Witness ==
    /\ lastOp.op = "roadSetup"
    /\ RoadLayersOnce(sources, layers)
    /\ Len(layers) = 4
    /\ Len(sources) = 2

\* ------------------------------------------- the map page's commands
NextControls ==
    \/ MapLoad
    \/ RoadsFetchError
    \/ \E data \in MapRoadLists : RoadsFetchOk(data)
    \/ \E mode \in {"2d", "3d"} : SetMapMode(mode)
    \/ \E direction \in {"zoomIn", "zoomOut"} : Zoom(direction)
    \/ ResetView
    \/ \E feature \in HitFeatures : RoadClick(feature)
    \/ PanelButton
    \/ ClosePanel
    \/ OpenSearch
    \/ CloseSearch
    \/ \E road \in SelectableRoads : SelectRoad(road)

SpecControls == InitMap /\ [][NextControls]_vars

\* a road query in flight comes back, with rows or with an error
SpecControlsLive ==
    SpecControls /\ WF_vars(RoadsFetchError \/ \E data \in MapRoadLists : RoadsFetchOk(data))

\* a viewport or highlight command of the page
CommandStep ==
    \/ \E mode \in {"2d", "3d"} : SetMapMode(mode)
    \/ \E direction \in {"zoomIn", "zoomOut"} : Zoom(direction)
    \/ ResetView
    \/ PanelButton
    \/ \E road \in SelectableRoads : SelectRoad(road)

NoMapError == ~includes(sources, "error") /\ ~includes(layers, "error")

MapAndInteractionUnchanged ==
    UNCHANGED <<sources, layers, highlight, lastView, terrain,
                hoveredId, selectedId, activeRoad, highlightSuppressed>>

\* C14 as stated: a command issued while the map is not ready, or while the
\* highlight layer does not exist, changes no map state and no interaction state.
C14_Original ==
    [][(CommandStep /\ (~mapReady \/ ~HasHighlightLayer))
          => (MapAndInteractionUnchanged /\ NoMapError')]_vars

\* C14 amended: a command issued while the map is not ready changes no map
\* state and no interaction state; a command issued while the highlight layer
\* does not exist leaves the highlight as it is; neither raises an error.
C14_Amended ==
    [][CommandStep
          => /\ ~mapReady => MapAndInteractionUnchanged
             /\ ~HasHighlightLayer => (highlight' = highlight /\ ~HasHighlightLayer')
             /\ NoMapError']_vars

\* 3D was asked for while the style was still loading: nothing on the map changed
C14_Witness ==
    /\ lastOp.op = "setMapMode"
    /\ ~mapReady
    /\ mapMode = "3d"
    /\ ~terrain
    /\ sources = <<>>
    /\ lastView.cmd = "none"

\* ------------------------------------------------ Maps.tsx: unmounting
Unmounted == mapPhase \in {"removed", "removedFetching"}

\* the cleanups of the page's effects: map.remove(), mapRef.current = null,
\* and isCancelled = true for the report query in flight
Unmount ==
    /\ ~Unmounted
    /\ mapPhase' = IF mapPhase = "fetching" THEN "removedFetching" ELSE "removed"
    /\ sources' = <<>>
    /\ layers' = <<>>
    /\ highlight' = <<>>
    /\ terrain' = FALSE
    /\ fetches' = cancelAll(fetches)
    /\ lastOp' = [op |-> "unmount", arg |-> Null]
    /\ UNCHANGED <<roads, filterVars, mapReady, hoveredId, selectedId, activeRoad, lastView,
                   searchVars, recentVars, reports, reportsLoading, reportsError, coordVars,
                   debounceVars, mapMode, editVars, dmVars>>

\* the road query fails after the unmount: setMapReady on the unmounted
\* component is dropped by React
RoadsFetchErrorUnmounted ==
    /\ mapPhase = "removedFetching"
    /\ mapPhase' = "removed"
    /\ lastOp' = [op |-> "roadsError", arg |-> Null]
    /\ UNCHANGED <<roads, filterVars, mapReady, sources, layers, interVars, searchVars,
                   recentVars, reportVars, coordVars, debounceVars, modeVars, editVars, dmVars>>

\* the road query returns after the unmount: the handler goes on without a
\* liveness check; roadsDataRef is written, and the calls on the removed map
\* either throw at the first one or go through
RoadsFetchOkUnmounted(data) ==
    /\ mapPhase = "removedFetching"
    /\ mapPhase' = "removed"
    /\ roads' = data
    /\ \/ UNCHANGED <<sources, layers, highlight, lastView>>
       \/ /\ sources' = setupRoadSource(sources)
          /\ layers' = setupRoadLayers(layers)
          /\ highlight' = <<>>
          /\ lastView' = IF \E i \in 1..Len(data) : Len(data[i].geom.coordinates) > 0
                         THEN [cmd |-> "fitBounds", id |-> Null] ELSE lastView
    /\ lastOp' = [op |-> "roadsOk", arg |-> Null]
    /\ UNCHANGED <<filterVars, mapReady, hoveredId, selectedId, activeRoad, searchVars,
                   recentVars, reportVars, coordVars, debounceVars, modeVars, editVars, dmVars>>

NextUnmount ==
    \/ MapLoad
    \/ RoadsFetchError
    \/ \E data \in MapRoadLists : RoadsFetchOk(data)
    \/ \E feature \in HitFeatures : Hover(feature)
    \/ MouseLeave
    \/ \E feature \in HitFeatures : RoadClick(feature)
    \/ \E f \in fetches : ReportsFetchError(f)
    \/ \E f \in fetches : \E data \in ReportResponses(f.roadId) : ReportsFetchOk(f, data)
    \/ Unmount
    \/ RoadsFetchErrorUnmounted
    \/ \E data \in MapRoadLists : RoadsFetchOkUnmounted(data)

SpecUnmount == InitMap /\ [][NextUnmount]_vars

\* C15: once the map view is unmounted no fetch that resolves later changes
\* any state: the road directory, the map's sources and layers, mapReady and
\* the report loader stay as the unmount left them.
C15_NoMutationAfterUnmount ==
    [][Unmounted =>
          UNCHANGED <<roads, sources, layers, highlight, mapReady, lastView,
                      reports, reportsLoading, reportsError,
                      hoveredId, selectedId, activeRoad>>]_vars

\* ------------------------------------------- the road source's features
\* the page with any two rows of the pool in the road query's answer
NextFeatures ==
    \/ MapLoad
    \/ RoadsFetchError
    \/ \E data \in RoadLists : RoadsFetchOk(data)
    \/ \E feature \in HitFeatures : Hover(feature)
    \/ MouseLeave
    \/ \E feature \in HitFeatures : RoadClick(feature)

SpecFeatures == InitMap /\ [][NextFeatures]_vars

\* the position in the road list of the k-th road that has a geometry
GeomIndex(k) ==
    CHOOSE j \in 1..Len(roads) :
        /\ HasGeom(roads[j])
        /\ Cardinality({i \in 1..j : HasGeom(roads[i])}) = k

FeaturesFollowRoads ==
    LET fc == buildFeatureCollection(roads)
    IN /\ Len(fc) = Cardinality({i \in 1..Len(roads) : HasGeom(roads[i])})
       /\ \A k \in 1..Len(fc) :
             /\ fc[k].id = NumToString(roads[GeomIndex(k)].id)
             /\ fc[k].geometry = roads[GeomIndex(k)].geom

\* C17: the feature collection of the road list has one feature per road with a
\* geometry, in the list's order, none for a road without one; each feature's
\* id is String(road.id) and its properties.id is that same id, whatever the
\* road's props carry.
C17_FeatureIdInProperties ==
    /\ FeaturesFollowRoads
    /\ \A k \in 1..Len(buildFeatureCollection(roads)) :
          buildFeatureCollection(roads)[k].properties.id = buildFeatureCollection(roads)[k].id

\* ------------------------------------------- the condition's spelling
IsGap(c) == c \in {" ", "_", "-"}

\* the words of a string: its maximal runs of characters that are neither a
\* space, an underscore nor a hyphen, lower-cased
RECURSIVE WordsFrom(_, _)
WordsFrom(s, word) ==
    IF s = <<>> THEN IF word = <<>> THEN <<>> ELSE <<word>>
    ELSE IF IsGap(Head(s))
         THEN IF word = <<>> THEN WordsFrom(Tail(s), <<>>)
              ELSE <<word>> \o WordsFrom(Tail(s), <<>>)
         ELSE WordsFrom(Tail(s), Append(word, LowerChar(Head(s))))

Words(s) == WordsFrom(s, <<>>)

\* the stored condition spells the option up to case, white space around it
\* and the separators between its words
SpellsOption(stored, option) ==
    /\ stored # Null
    /\ Words(stored) = Words(option)

OnlyConditionConstrained ==
    /\ filters.condition # <<>>
    /\ \A d \in Dimensions \ {"condition"} : filters[d] = <<>>
    /\ \A k \in 1..Len(filters.condition) : filters.condition[k] \in CONDITION_VALUES

\* C18: with only the condition dimension constrained, to canonical option
\* values, a road is in the filtered list exactly when its stored condition
\* spells one of the selected options up to letter case, surrounding white
\* space and underscores, hyphens and repeated spaces between the words.
C18_ConditionSpelling ==
    OnlyConditionConstrained =>
        \A i \in 1..Len(roads) :
            InVisible(roads[i]) <=>
                \E k \in 1..Len(filters.condition) :
                    SpellsOption(roads[i].condition, filters.condition[k])

\* "minor damage" is selected; a road stored as "Minor_Damage" is kept and a
\* road with another condition is dropped
C18_Witness ==
    /\ lastOp.op \in {"toggleFilterValue", "setFilterValue"}
    /\ OnlyConditionConstrained
    /\ filters.condition = <<sMinorDamage>>
    /\ \E i \in 1..Len(roads) :
          /\ roads[i].condition = sMinorUnderscore
          /\ InVisible(roads[i])
    /\ \E i \in 1..Len(roads) :
          /\ roads[i].condition \notin {Null, sMinorUnderscore, sMinorDamage}
          /\ ~InVisible(roads[i])

\* ------------------------------------------------ a click on a road
Clicked == lastOp.op = "roadClick"

\* the road's display label: its name, else its highway class, else its id
DisplayLabel(road) ==
    IF road.name # Null /\ road.name # <<>> THEN road.name
    ELSE IF road.highway # Null /\ road.highway # <<>> THEN road.highway
    ELSE NumToString(road.id)

ClickSelects ==
    Clicked =>
        /\ selectedId = lastOp.arg
        /\ hoveredId = lastOp.arg
        /\ highlight = lastOp.arg
        /\ activeRoad # NoRoad
        /\ activeRoad \in {roads[i] : i \in 1..Len(roads)}
        /\ NumToString(activeRoad.id) = lastOp.arg
        /\ searchTerm = DisplayLabel(activeRoad)

ClickEmptiesResults == Clicked => searchResults = <<>>

ClickKeepsViewport ==
    [][\A feature \in HitFeatures : RoadClick(feature) => lastView' = lastView]_vars

\* C19: a click on a road feature with id c ends with selectedId = c and
\* hoveredId = c, the search text equal to the road's display label, the search
\* results empty, the highlight on c and the active road the directory's road
\* c; it issues no viewport command.
C19_RoadClickEffects ==
    /\ []ClickSelects
    /\ []ClickEmptiesResults
    /\ ClickKeepsViewport

\* ------------------------------------------- hovering with no selection
\* C20: with no road selected, a pointer-move over road h ends with
\* hoveredId = h and the highlight on h, whatever clicks, closes, mouse-leaves
\* and highlight clears came before.
C20_HoverHighlightsWhenUnselected ==
    (lastOp.op = "hover" /\ ~Selected) =>
        /\ hoveredId = lastOp.arg
        /\ highlight = lastOp.arg

\* ------------------------------------------- a click on a report marker
ReportClickOutcome ==
    lastOp.op = "reportClick" =>
        /\ selectedId = lastOp.arg
        /\ coordFindById(lastOp.arg) # NoRoad
        /\ highlightSuppressed
        /\ \E report \in ReportTable :
              report.road_id = lastOp.arg /\ activeReportId = report.id
        /\ lastView = [cmd |-> "fitBounds", id |-> lastOp.arg]
        /\ highlight = <<>>

\* the road click that comes right after a marker click
RoadClickAfterMarker ==
    /\ lastOp.op = "reportClick"
    /\ \E feature \in CoordFeatures : CoordRoadClick(feature)

sTypedJ == <<"j">>

PickTerms == {<<>>, sTypedJ, sTypedJl}

NextPick ==
    \/ MapLoad
    \/ RoadsFetchError
    \/ \E data \in MapRoadLists : RoadsFetchOk(data)
    \/ \E feature \in HitFeatures : RoadClick(feature)
    \/ ClosePanel
    \/ OpenSearch
    \/ CloseSearch
    \/ \E text \in PickTerms : TypeSearch(text)
    \/ \E road \in SelectableRoads : SelectRoad(road)

SpecPick == InitMap /\ [][NextPick]_vars

Picked == lastOp.op = "selectRoad"

PickedRoad == findRoadById(lastOp.arg)

PickFocuses ==
    Picked =>
        /\ PickedRoad # NoRoad
        /\ selectedId = lastOp.arg
        /\ hoveredId = lastOp.arg
        /\ activeRoad = PickedRoad
        /\ highlight = lastOp.arg
        /\ HasGeom(PickedRoad) => lastView = [cmd |-> "fitBounds", id |-> lastOp.arg]

\* the label is read as the display label of a click or as the label of the
\* recent entry, whichever the text equals
PickSetsSearchText ==
    Picked => searchTerm \in {DisplayLabel(PickedRoad), getRoadPrimaryLabel(PickedRoad)}

PickIsFirstRecent ==
    Picked =>
        /\ Len(recentSearches) >= 1
        /\ recentSearches[1].id = lastOp.arg

\* C21: picking a road r of the directory in the search dialog, a road without
\* geometry included, ends with selectedId = r and hoveredId = r, the active
\* road r, the highlight on r, the search text r's label and r first in the
\* recent list; a road with geometry gets a fit-bounds command.
C21_SearchPickFocuses ==
    /\ PickFocuses
    /\ PickSetsSearchText
    /\ PickIsFirstRecent

\* ------------------------------------------- closing the detail panel
CloseClears ==
    lastOp.op = "close" =>
        /\ selectedId = Null
        /\ activeRoad = NoRoad
        /\ activeReportId = Null
        /\ ~highlightSuppressed
        /\ highlight = <<>>

CloseKeepsHoverAndText == [][ClosePanel => UNCHANGED <<hoveredId, searchTerm>>]_vars

\* C22: closing the detail panel clears the selection, the active road, the
\* active report, the suppression flag and the highlight (filter id ''), and
\* leaves hoveredId and the search text as they were.
C22_CloseClearsSelection ==
    /\ []CloseClears
    /\ CloseKeepsHoverAndText

\* ------------------------------------------------- the debounced search
ResultsOf(t) ==
    IF trim(t) = <<>> THEN searchResults = <<>>
    ELSE FirstEightMatches(searchResults, roads, trim(t))

\* the one pending timer carries the input text
PendingTimerIsLatest == debounceTimer # Null => debounceTimer = searchTerm

\* the debounced term only ever becomes the input text of that moment, and a
\* keystroke leaves it and the results alone
NoIntermediateTerm ==
    [][/\ debouncedSearchTerm' # debouncedSearchTerm => debouncedSearchTerm' = searchTerm
       /\ searchTerm' # searchTerm => UNCHANGED <<debouncedSearchTerm, searchResults>>]_vars

InputSettles ==
    \A t \in SearchTexts :
        <>[](searchTerm = t) => <>[](debouncedSearchTerm = t /\ ResultsOf(t))

\* C23: the results follow the debounced term only; every change of the input
\* text replaces the pending timer, so keystrokes that arrive before the timer
\* fires leave no intermediate debounced term; once the input stops the
\* debounced term becomes the last input text and the results the matches of
\* that text in the current road list, also when the list is replaced.
C23_DebouncedSearch ==
    /\ []PendingTimerIsLatest
    /\ []ResultsOf(debouncedSearchTerm)
    /\ NoIntermediateTerm
    /\ InputSettles

\* two keystrokes came before the timer fired, the second text was searched
\* and the road list was replaced afterwards
C23_Witness ==
    /\ lastOp.op = "roadsChange"
    /\ debounceTimer = Null
    /\ searchTerm = sMelatiTyped
    /\ debouncedSearchTerm = sMelatiTyped
    /\ Len(searchResults) = 1

\* ------------------------------------------- the road query's outcome
RoadQueryFailed == mapPhase = "failed"

NoRoadSourceOrLayer ==
    /\ ~includes(sources, "roads")
    /\ \A id \in {"roads-line", "roads-hit", "roads-highlight"} : ~includes(layers, id)

ControlsUsable ==
    /\ searchDialogOpen \/ ENABLED OpenSearch
    /\ \A direction \in {"zoomIn", "zoomOut"} : ENABLED Zoom(direction)
    /\ ENABLED ResetView

FailureLeavesMapUsable ==
    RoadQueryFailed =>
        /\ mapReady
        /\ roads = <<>>
        /\ NoRoadSourceOrLayer
        /\ ControlsUsable

\* C24: once the style has loaded and the road query runs, mapReady becomes
\* true whether the query returns rows or an error; after an error the road
\* directory is as before (empty), the map has no road source or layer, and
\* search, zoom and reset view can be used.
C24_ReadyAfterLoad ==
    /\ []FailureLeavesMapUsable
    /\ (mapPhase = "fetching") ~> mapReady
    /\ [](mapPhase = "ready" => mapReady)

\* the query failed and the search dialog was opened afterwards
C24_Witness ==
    /\ RoadQueryFailed
    /\ mapReady
    /\ searchDialogOpen
    /\ lastOp.op \in {"zoom", "resetView"}

\* ------------------------------------------- DetailPanel: the road edit
MaxSaves == 2

sEditFailed == <<"G", "a", "g", "a", "l", " ", "m", "e", "n", "y", "i", "m", "p", "a", "n">>
sErrorMessage == <<"d", "e", "n", "i", "e", "d">>

\* the roads the page hands to the panel as activeRoad
PanelRoads == {r \in RoadPool : r.id \in {1, 2}}

\* the panel is rendered with another activeRoad: the effect on
\* [activeRoad, editDialogOpen] closes the dialog when there is none
PanelActiveRoad(road) ==
    /\ road # activeRoad
    /\ activeRoad' = road
    /\ IF road = NoRoad
       THEN editDialogOpen' = FALSE /\ editError' = Null
       ELSE UNCHANGED <<editDialogOpen, editError>>
    /\ lastOp' = [op |-> "activeRoad", arg |-> Null]
    /\ UNCHANGED <<roads, filterVars, mapVars, hoveredId, selectedId, highlight, lastView,
                   searchVars, recentVars, reportVars, coordVars, debounceVars, modeVars,
                   editSaving, savesInFlight, roadUpdated, dmVars>>

handleOpenEditDialog ==
    /\ activeRoad # NoRoad
    /\ ~editDialogOpen
    /\ editError' = Null
    /\ editDialogOpen' = TRUE
    /\ lastOp' = [op |-> "openEdit", arg |-> Null]
    /\ UNCHANGED <<roads, filterVars, mapVars, interVars, searchVars, recentVars, reportVars,
                   coordVars, debounceVars, modeVars, editSaving, savesInFlight, roadUpdated, dmVars>>

\* onOpenChange(false): Escape, a click outside, or Batal
DismissEditDialog ==
    /\ editDialogOpen
    /\ editDialogOpen' = FALSE
    /\ lastOp' = [op |-> "dismissEdit", arg |-> Null]
    /\ UNCHANGED <<roads, filterVars, mapVars, interVars, searchVars, recentVars, reportVars,
                   coordVars, debounceVars, modeVars, editSaving, editError, savesInFlight,
                   roadUpdated, dmVars>>

\* variant: the handler does not look at editSaving
handleSaveEdit_NoSavingGuard ==
    /\ editDialogOpen
    /\ Len(roadUpdated) + Len(savesInFlight) < MaxSaves
    /\ IF activeRoad = NoRoad
       THEN /\ lastOp' = [op |-> "saveIgnored", arg |-> Null]
            /\ UNCHANGED <<editSaving, editError, savesInFlight>>
       ELSE /\ editSaving' = TRUE
            /\ editError' = Null
            /\ savesInFlight' = Append(savesInFlight, activeRoad.id)
            /\ lastOp' = [op |-> "saveStart", arg |-> Null]
    /\ UNCHANGED <<roads, filterVars, mapVars, interVars, searchVars, recentVars, reportVars,
                   coordVars, debounceVars, modeVars, editDialogOpen, roadUpdated, dmVars>>

\* handleSaveEdit up to its await
handleSaveEdit ==
    /\ editDialogOpen
    /\ Len(roadUpdated) + Len(savesInFlight) < MaxSaves
    /\ IF activeRoad = NoRoad \/ editSaving
       THEN /\ lastOp' = [op |-> "saveIgnored", arg |-> Null]
            /\ UNCHANGED <<editSaving, editError, savesInFlight>>
       ELSE /\ editSaving' = TRUE
            /\ editError' = Null
            /\ savesInFlight' = Append(savesInFlight, activeRoad.id)
            /\ lastOp' = [op |-> "saveStart", arg |-> Null]
    /\ UNCHANGED <<roads, filterVars, mapVars, interVars, searchVars, recentVars, reportVars,
                   coordVars, debounceVars, modeVars, editDialogOpen, roadUpdated, dmVars>>

\* handleSaveEdit after its await: the update came back with a row, with an
\* error, or the call threw; finally setEditSaving(false)
SaveEditResolves(outcome) ==
    /\ savesInFlight # <<>>
    /\ savesInFlight' = Tail(savesInFlight)
    /\ editSaving' = FALSE
    /\ IF outcome = "ok"
       THEN /\ roadUpdated' = Append(roadUpdated, Head(savesInFlight))
            /\ editDialogOpen' = FALSE
            /\ UNCHANGED editError
       ELSE /\ editError' = IF outcome = "error" THEN sErrorMessage ELSE sEditFailed
            /\ UNCHANGED <<roadUpdated, editDialogOpen>>
    /\ lastOp' = [op |-> "saveResolved", arg |-> <<outcome>>]
    /\ UNCHANGED <<roads, filterVars, mapVars, interVars, searchVars, recentVars, reportVars,
                   coordVars, debounceVars, modeVars, dmVars>>

NextEdit ==
    \/ \E road \in PanelRoads \cup {NoRoad} : PanelActiveRoad(road)
    \/ handleOpenEditDialog
    \/ DismissEditDialog
    \/ handleSaveEdit
    \/ \E outcome \in {"ok", "error", "throw"} : SaveEditResolves(outcome)

SpecEdit == InitMap /\ [][NextEdit]_vars

\* C25: at most one save of a road edit is in flight, a save asked for while
\* editSaving is true does nothing; a save that succeeds hands the road to
\* onRoadUpdated once and closes the dialog; a save that comes back with an
\* error or throws calls onRoadUpdated not at all, does not close the dialog
\* and sets editError; every outcome puts editSaving back to false.
C25_SaveEdit ==
    /\ [](Len(savesInFlight) <= 1)
    /\ [](editSaving <=> Len(savesInFlight) = 1)
    /\ [][(editSaving /\ handleSaveEdit) => UNCHANGED editVars]_vars
    /\ [][SaveEditResolves("ok") =>
             /\ roadUpdated' = Append(roadUpdated, Head(savesInFlight))
             /\ ~editDialogOpen'
             /\ ~editSaving']_vars
    /\ [][(SaveEditResolves("error") \/ SaveEditResolves("throw")) =>
             /\ roadUpdated' = roadUpdated
             /\ editDialogOpen' = editDialogOpen
             /\ editError' # Null
             /\ ~editSaving']_vars

\* a save failed with the dialog open, the dialog still shows with the error
C25_Witness ==
    /\ lastOp = [op |-> "saveResolved", arg |-> <<"error">>]
    /\ editDialogOpen
    /\ editError = sErrorMessage
    /\ ~editSaving
    /\ Len(roadUpdated) = 1

\* ------------------------------------------- the loading flag
AllFetchesResolved == fetches = {}

\* C26: whatever the order of selections, deselections and responses, when
\* no report query is in flight any more reportsLoading is false; while it is
\* true a query that was not cancelled is still in flight.
C26_LoadingNotLeftTrue ==
    /\ AllFetchesResolved => ~reportsLoading
    /\ reportsLoading => \E f \in fetches : ~f.cancelled

\* the last response to arrive was the discarded one of a road selected before
C26_Witness ==
    /\ lastOp.op \in {"reportsOk", "reportsError"}
    /\ lastOp.arg # selectedId
    /\ AllFetchesResolved
    /\ ~reportsLoading

\* ------------------------------------------- whose reports are listed
\* C27: when reportsLoading is false and the report list is not empty, every
\* listed report belongs to the selected road.
C27_ReportsOfSelectedRoad ==
    (~reportsLoading /\ reports # <<>>) =>
        /\ Selected
        /\ \A i \in 1..Len(reports) : reports[i].road_id = selectedId

\* road 1's reports are listed after another road had been selected before
C27_Witness ==
    /\ lastOp.op = "reportsOk"
    /\ ~reportsLoading
    /\ Len(reports) >= 1
    /\ selectedId = NumToString(1)
    /\ hoveredId = NumToString(1)
    /\ Len(recentSearches) >= 1
    /\ recentSearches[1].id = NumToString(2)

MaxSent == 3

\* the texts typed into the search input
TableSearchTexts == {<<>>, <<"b">>}

replaceCommas(s) == [k \in 1..Len(s) |-> IF s[k] = "," THEN " " ELSE s[k]]

\* column.ilike.%term% on a text column
ilike(field, term) == ContainsIgnoringCase(field, term)

roadsQueryMatches(row, debounced) ==
    debounced = <<>> \/ LET term == replaceCommas(debounced)
                        IN ilike(row.name, term) \/ ilike(row.highway, term)

reportsQueryMatches(row, debounced) ==
    debounced = <<>> \/ LET term == replaceCommas(debounced)
                        IN \/ ilike(row.deskripsi, term)
                           \/ ilike(row.status, term)
                           \/ ilike(row.kontak_pelapor, term)

\* .range(from, to) of the rows, both ends included and counted from 0
range(rows, from, to) ==
    IF from >= Len(rows) THEN <<>>
    ELSE SubSeq(rows, from + 1, IF to + 1 < Len(rows) THEN to + 1 ELSE Len(rows))

\* what the remote store answers to a query of fetchData: the page of rows and
\* the exact count of the rows that match
QueryAnswer(req, db) ==
    LET from == (req.page - 1) * req.perPage
        to == from + req.perPage - 1
        matching ==
            IF req.tableView = "roads"
            THEN SelectSeq(RemoteRoads, LAMBDA row :
                     row.id \in db.roads /\ roadsQueryMatches(row, req.term))
            ELSE SelectSeq(RemoteReports, LAMBDA row :
                     row.id \in db.reports /\ reportsQueryMatches(row, req.term))
    IN [data |-> range(matching, from, to), count |-> Len(matching)]

pageCount(d) ==
    LET pages == (d.total + d.perPage - 1) \div d.perPage
    IN IF pages > 1 THEN pages ELSE 1

\* fetchData of the render with state d: setLoading(true) and the query sent
fetchDataSends(reqs, d) ==
    {[r EXCEPT !.latest = FALSE] : r \in reqs}
        \cup {Request(d.tableView, d.debouncedSearch, d.page, d.perPage)}

FetchDeps(d) == <<d.debouncedSearch, d.page, d.perPage, d.tableView>>
ResetPageDeps(d) == <<d.tableView, d.debouncedSearch, d.perPage>>
ClampDeps(d) == <<d.page, pageCount(d), d.total>>

\* the effects after a render with state cur that followed a render with state
\* prev, in their order in the component, and the renders their state changes
\* bring, until a render changes nothing: the fetch effect, the page reset, the
\* selection reset on a view switch, the page clamp, and the two effects that
\* keep of a selection the ids of the loaded rows
RECURSIVE RunEffects(_, _, _, _, _)
RunEffects(prev, cur, rowsSet, reqs, sent) ==
    LET fetch == FetchDeps(cur) # FetchDeps(prev)
        reset == ResetPageDeps(cur) # ResetPageDeps(prev)
        clear == cur.tableView # prev.tableView
        clamp == ClampDeps(cur) # ClampDeps(prev)
        afterReset == IF reset THEN 1 ELSE cur.page
        afterClamp == IF clamp /\ cur.total = 0 /\ cur.page # 1 THEN 1
                      ELSE IF clamp /\ cur.page > pageCount(cur) THEN pageCount(cur)
                      ELSE afterReset
        roadIds == IF clear THEN {} ELSE cur.selectedRoadIds
        reportIds == IF clear THEN {} ELSE cur.selectedReportIds
        next == [cur EXCEPT
                    !.loading = IF fetch THEN TRUE ELSE @,
                    !.page = afterClamp,
                    !.selectedRoadIds =
                        IF rowsSet THEN roadIds \cap RowIds(cur.roads) ELSE roadIds,
                    !.selectedReportIds =
                        IF rowsSet THEN reportIds \cap RowIds(cur.reports) ELSE reportIds]
        awaited == IF fetch THEN fetchDataSends(reqs, cur) ELSE reqs
        count == IF fetch THEN sent + 1 ELSE sent
    IN IF next = cur THEN [dm |-> cur, requests |-> awaited, sent |-> count]
       ELSE RunEffects(cur, next, FALSE, awaited, count)

\* a handler left the component with state new: the render and its effects
Render(new, rowsSet) ==
    LET after == RunEffects(dm, new, rowsSet, dmRequests, dmSent)
    IN /\ dm' = after.dm
       /\ dmRequests' = after.requests
       /\ dmSent' = after.sent

CanAct == ~dm.deleteDialogOpen /\ dmSent < MaxSent

MapUnchanged ==
    UNCHANGED <<roads, filterVars, mapVars, interVars, searchVars, recentVars, reportVars,
                coordVars, debounceVars, modeVars, editVars>>

\* a click on the other table view
setTableView(view) ==
    /\ CanAct
    /\ view # dm.tableView
    /\ Render([dm EXCEPT !.tableView = view], FALSE)
    /\ lastOp' = [op |-> "tableView", arg |-> Null]
    /\ UNCHANGED <<dmTimer, dmDelete, dmDb, dmLatest>>
    /\ MapUnchanged

\* a click on a page number, Prev or Next
setPage(n) ==
    /\ CanAct
    /\ n \in 1..pageCount(dm)
    /\ n # dm.page
    /\ Render([dm EXCEPT !.page = n], FALSE)
    /\ lastOp' = [op |-> "page", arg |-> Null]
    /\ UNCHANGED <<dmTimer, dmDelete, dmDb, dmLatest>>
    /\ MapUnchanged

handlePerPageChange(value) ==
    /\ CanAct
    /\ value # dm.perPage
    /\ Render([dm EXCEPT !.perPage = value, !.page = 1], FALSE)
    /\ lastOp' = [op |-> "perPage", arg |-> Null]
    /\ UNCHANGED <<dmTimer, dmDelete, dmDb, dmLatest>>
    /\ MapUnchanged

\* onValueChange of the search input; the effect on [search] sets the timeout anew
TableSearchInput(val) ==
    /\ CanAct
    /\ val # dm.search
    /\ Render([dm EXCEPT !.search = val, !.page = 1], FALSE)
    /\ dmTimer' = TRUE
    /\ lastOp' = [op |-> "tableSearch", arg |-> val]
    /\ UNCHANGED <<dmDelete, dmDb, dmLatest>>
    /\ MapUnchanged

\* the timeout of 300 ms fires: setDebouncedSearch(search.trim())
TableDebounceFire ==
    /\ dmTimer
    /\ dmTimer' = FALSE
    /\ Render([dm EXCEPT !.debouncedSearch = trim(dm.search)], FALSE)
    /\ lastOp' = [op |-> "tableDebounce", arg |-> Null]
    /\ UNCHANGED <<dmDelete, dmDb, dmLatest>>
    /\ MapUnchanged

\* the state fetchData leaves when the query of req comes back
fetchDataApplies(req, outcome, d, db) ==
    LET answer == QueryAnswer(req, db)
    IN IF req.tableView = "roads"
       THEN IF outcome = "error"
            THEN [d EXCEPT !.roads = <<>>, !.total = 0, !.loading = FALSE]
            ELSE [d EXCEPT !.roads = answer.data, !.reports = <<>>,
                           !.total = answer.count, !.loading = FALSE]
       ELSE IF outcome = "error"
            THEN [d EXCEPT !.reports = <<>>, !.total = 0, !.loading = FALSE]
            ELSE [d EXCEPT !.reports = answer.data, !.roads = <<>>,
                           !.total = answer.count, !.loading = FALSE]

\* fetchData after its await
FetchResolves(req, outcome) ==
    /\ req \in dmRequests
    /\ LET new == fetchDataApplies(req, outcome, dm, dmDb)
           after == RunEffects(dm, new, TRUE, dmRequests \ {req}, dmSent)
       IN /\ dm' = after.dm
          /\ dmRequests' = after.requests
          /\ dmSent' = after.sent
          /\ dmLatest' = IF req.latest
                         THEN [roads |-> new.roads, reports |-> new.reports,
                               total |-> new.total, settled |-> TRUE]
                         ELSE dmLatest
    /\ lastOp' = [op |-> "fetchResolved", arg |-> <<outcome>>]
    /\ UNCHANGED <<dmTimer, dmDelete, dmDb>>
    /\ MapUnchanged

RowsShown == ~dm.loading /\ ~dm.deleteDialogOpen

toggled_id(set, id) == IF id \in set THEN set \ {id} ELSE set \cup {id}

toggleRoadSelection(id) ==
    /\ RowsShown
    /\ dm.tableView = "roads"
    /\ id \in RowIds(dm.roads)
    /\ Render([dm EXCEPT !.selectedRoadIds = toggled_id(@, id)], FALSE)
    /\ lastOp' = [op |-> "toggleRow", arg |-> Null]
    /\ UNCHANGED <<dmTimer, dmDelete, dmDb, dmLatest>>
    /\ MapUnchanged

toggleReportSelection(id) ==
    /\ RowsShown
    /\ dm.tableView = "reports"
    /\ id \in RowIds(dm.reports)
    /\ Render([dm EXCEPT !.selectedReportIds = toggled_id(@, id)], FALSE)
    /\ lastOp' = [op |-> "toggleRow", arg |-> Null]
    /\ UNCHANGED <<dmTimer, dmDelete, dmDb, dmLatest>>
    /\ MapUnchanged

requestDelete(type, ids) ==
    IF ids = {} THEN dm
    ELSE [dm EXCEPT !.deleteTarget = [type |-> type, ids |-> ids],
                    !.deleteDialogOpen = TRUE]

\* Delete (n) of the bulk menu in the header of the table shown
handleBulkDelete(type) ==
    /\ RowsShown
    /\ dm.tableView = type
    /\ IF type = "roads"
       THEN dm.roads # <<>> /\ dm.selectedRoadIds # {}
       ELSE dm.reports # <<>> /\ dm.selectedReportIds # {}
    /\ Render(requestDelete(type, IF type = "roads" THEN dm.selectedRoadIds
                                                    ELSE dm.selectedReportIds), FALSE)
    /\ lastOp' = [op |-> "bulkDelete", arg |-> Null]
    /\ UNCHANGED <<dmTimer, dmDelete, dmDb, dmLatest>>
    /\ MapUnchanged

handleCloseDeleteDialog ==
    /\ dm.deleteDialogOpen
    /\ Render([dm EXCEPT !.deleteDialogOpen = FALSE, !.deleteTarget = NoTarget,
                         !.deleteLoading = FALSE], FALSE)
    /\ lastOp' = [op |-> "cancelDelete", arg |-> Null]
    /\ UNCHANGED <<dmTimer, dmDelete, dmDb, dmLatest>>
    /\ MapUnchanged

\* handleConfirmDelete up to the await in handleDelete: the delete query holds
\* the target and the fetchData of the render the button was clicked in
handleConfirmDelete ==
    /\ dm.deleteDialogOpen
    /\ ~dm.deleteLoading
    /\ dm.deleteTarget # NoTarget
    /\ dmDelete = {}
    /\ dmSent <= MaxSent
    /\ dmDelete' = {[target |-> dm.deleteTarget,
                     fetchData |-> Request(dm.tableView, dm.debouncedSearch,
                                           dm.page, dm.perPage)]}
    /\ Render([dm EXCEPT !.deleteLoading = TRUE], FALSE)
    /\ lastOp' = [op |-> "confirmDelete", arg |-> Null]
    /\ UNCHANGED <<dmTimer, dmDb, dmLatest>>
    /\ MapUnchanged

removeSelections(d, type, ids) ==
    IF type = "roads"
    THEN [d EXCEPT !.selectedRoadIds = @ \ ids]
    ELSE [d EXCEPT !.selectedReportIds = @ \ ids]

\* handleDelete and handleConfirmDelete after the await: on success the rows
\* are gone, the ids leave the selection and fetchData is called again
DeleteResolves(del, outcome) ==
    /\ del \in dmDelete
    /\ dmDelete' = {}
    /\ LET closed == [dm EXCEPT !.deleteLoading = FALSE, !.deleteDialogOpen = FALSE,
                                !.deleteTarget = NoTarget]
       IN IF outcome = "error"
          THEN /\ Render(closed, FALSE)
               /\ UNCHANGED dmDb
          ELSE /\ dmDb' = IF del.target.type = "roads"
                          THEN [dmDb EXCEPT !.roads = @ \ del.target.ids]
                          ELSE [dmDb EXCEPT !.reports = @ \ del.target.ids]
               /\ LET new == [removeSelections(closed, del.target.type, del.target.ids)
                                 EXCEPT !.loading = TRUE]
                      after == RunEffects(dm, new, FALSE,
                                   {[r EXCEPT !.latest = FALSE] : r \in dmRequests}
                                       \cup {del.fetchData}, dmSent + 1)
                  IN /\ dm' = after.dm
                     /\ dmRequests' = after.requests
                     /\ dmSent' = after.sent
    /\ lastOp' = [op |-> "deleteResolved", arg |-> <<outcome>>]
    /\ UNCHANGED <<dmTimer, dmLatest>>
    /\ MapUnchanged

NextTable ==
    \/ \E view \in {"roads", "reports"} : setTableView(view)
    \/ \E n \in 1..pageCount(dm) : setPage(n)
    \/ \E k \in 1..Len(limitOptions) : handlePerPageChange(limitOptions[k])
    \/ \E val \in TableSearchTexts : TableSearchInput(val)
    \/ TableDebounceFire
    \/ \E req \in dmRequests : \E outcome \in {"ok", "error"} : FetchResolves(req, outcome)

SpecTable == InitMap /\ [][NextTable]_vars

\* the table with its row selection and the bulk delete
NextSelection ==
    \/ \E view \in {"roads", "reports"} : setTableView(view)
    \/ \E n \in 1..pageCount(dm) : setPage(n)
    \/ \E req \in dmRequests : \E outcome \in {"ok", "error"} : FetchResolves(req, outcome)
    \/ \E id \in RowIds(RemoteRoads) : toggleRoadSelection(id)
    \/ \E id \in RowIds(RemoteReports) : toggleReportSelection(id)
    \/ \E type \in {"roads", "reports"} : handleBulkDelete(type)
    \/ handleCloseDeleteDialog
    \/ handleConfirmDelete
    \/ \E del \in dmDelete : \E outcome \in {"ok", "error"} : DeleteResolves(del, outcome)

SpecSelection == InitMap /\ [][NextSelection]_vars

AllSettled == dmRequests = {} /\ dmDelete = {} /\ dmLatest.settled

\* C29: once every query of the data-management table has come back, the rows
\* and the total shown are those the query sent last came back with
C29_LatestResponseShown ==
    AllSettled =>
        /\ dm.total = dmLatest.total
        /\ IF dm.tableView = "roads" THEN dm.roads = dmLatest.roads
                                     ELSE dm.reports = dmLatest.reports

\* C30: the selected road ids are ids of loaded road rows and the selected
\* report ids are ids of loaded report rows, a switch of the table view empties
\* both selections, and the ids of a delete query sent by the confirmed bulk
\* delete are ids of rows of the page loaded when it is sent
C30_SelectionWithinLoadedPage ==
    /\ [](/\ dm.selectedRoadIds \subseteq RowIds(dm.roads)
          /\ dm.selectedReportIds \subseteq RowIds(dm.reports))
    /\ [][/\ dm'.tableView # dm.tableView
             => dm'.selectedRoadIds = {} /\ dm'.selectedReportIds = {}
          /\ \A del \in dmDelete' \ dmDelete :
                del.target.ids \subseteq RowIds(IF del.target.type = "roads"
                                               THEN dm.roads ELSE dm.reports)]_vars

====
